---- MODULE Spec2Model ----
(***************************************************************************)
(* Model of the qwiic-relay-rs driver (src/src/lib.rs, verification.rs,   *)
(* error.rs): the handle's configuration, the I2C device it talks to, and *)
(* the relay operations, step by step.  Time is counted in microseconds.  *)
(***************************************************************************)
EXTENDS Integers, Sequences, FiniteSets, TLC

(* ------------------------------ bounds -------------------------------- *)
\* largest max_retries explored by the engine sessions
MaxRetries == 2
\* largest number of toggle writes the device ignores before obeying
MaxIgnore == 2
\* largest number of transport failures the bus produces in one session
MaxFaults == 1
\* time one bus transaction takes when the bus is not instantaneous (us)
BusTime == 300
\* time that passes before a clock read when the clock is not frozen (us)
ClockTick == 1
\* largest number of changes an external actor makes to the relays in one session
MaxActor == 1

(* ------------------------ protocol constants -------------------------- *)
DualQuadToggleBase == 0
TurnAllOff == 10
TurnAllOn == 11
ToggleAll == 12
RelayState_Off == 0
RelayState_On == 1
SingleFirmwareVersion == 4
SingleStatusVersion == 5
StatusBase == 4
CHANGE_ADDRESS_COMMAND == 199
AddressLow == 7
AddressHigh == 120
AddressSettleMs == 100
MaxRelays == 4
QuadRelayDefault == 109
U8Max == 255

None == << >>
Some(n) == << n >>

Ms(ms) == ms * 1000

(* ----------------------------- RelayStatus ---------------------------- *)
\* (mutant) only the byte 1 is On
RelayStatusFromU8OnlyOne(value) == IF value = 1 THEN "On" ELSE "Off"

\* impl From<u8> for RelayStatus
RelayStatusFromU8(value) == IF value # 0 THEN "On" ELSE "Off"
\* impl From<bool> for RelayStatus
RelayStatusFromBool(value) == IF value THEN "On" ELSE "Off"
\* impl From<RelayStatus> for u8 (status as u8: Off = 0, On = 1)
U8FromRelayStatus(status) == IF status = "On" THEN 1 ELSE 0
\* impl From<RelayStatus> for bool
BoolFromRelayStatus(status) == status = "On"

(* u8 addition: the sum, or what an overflowing sum can do (a debug build *)
(* panics, a release build wraps).                                        *)
U8Add(a, b) ==
  IF a + b <= U8Max
    THEN {[panic |-> FALSE, val |-> a + b]}
    ELSE {[panic |-> TRUE, val |-> 0], [panic |-> FALSE, val |-> (a + b) % (U8Max + 1)]}

\* u32 values are handled in two halves of 16 bits, so that no intermediate
\* result leaves the range of the integers of the checker
U32Half == 65536
NanosPerMicro == 1000

\* a * b in u32 arithmetic (b no larger than NanosPerMicro), as [hi, lo]
\* halves: an overflow panics where overflow checks are compiled in and
\* wraps where they are not
U32Mul(a, b) ==
  LET lo == (a % U32Half) * b
      hi == (a \div U32Half) * b + lo \div U32Half
  IN IF hi < U32Half
       THEN {[panic |-> FALSE, hi |-> hi, lo |-> lo % U32Half]}
       ELSE {[panic |-> TRUE, hi |-> 0, lo |-> 0],
             [panic |-> FALSE, hi |-> hi % U32Half, lo |-> lo % U32Half]}

\* the whole microseconds of a Duration::new(0, nanos), nanos given in halves
MicrosOfNanos(n) ==
  (n.hi \div NanosPerMicro) * U32Half
    + ((n.hi % NanosPerMicro) * U32Half + n.lo) \div NanosPerMicro

(* --------------------------- configurations --------------------------- *)
Modes == {"Strict", "Lenient", "Disabled"}

\* impl Default for VerificationConfig
VerificationConfig_default ==
  [mode |-> "Strict", max_retries |-> 3, retry_delay_ms |-> 50,
   verification_delay_ms |-> 20, timeout_ms |-> 1000]

\* VerificationConfig::strict: Self::default()
VerificationConfig_strict == VerificationConfig_default

VerificationConfig_lenient ==
  [mode |-> "Lenient", max_retries |-> 5, retry_delay_ms |-> 100,
   verification_delay_ms |-> 50, timeout_ms |-> 2000]

VerificationConfig_disabled ==
  [mode |-> "Disabled", max_retries |-> 0, retry_delay_ms |-> 0,
   verification_delay_ms |-> 0, timeout_ms |-> 0]

\* VerificationConfig::with_mode
VerificationConfig_with_mode(self, mode) == [self EXCEPT !.mode = mode]

\* VerificationConfig::with_max_retries
VerificationConfig_with_max_retries(self, retries) == [self EXCEPT !.max_retries = retries]

\* VerificationConfig::with_retry_delay
VerificationConfig_with_retry_delay(self, delay_ms) == [self EXCEPT !.retry_delay_ms = delay_ms]

\* VerificationConfig::with_verification_delay
VerificationConfig_with_verification_delay(self, delay_ms) ==
  [self EXCEPT !.verification_delay_ms = delay_ms]

\* (mutant) with_timeout stores its value in the retry delay
VerificationConfig_with_timeoutInRetryDelay(self, timeout_ms) ==
  [self EXCEPT !.retry_delay_ms = timeout_ms]

\* VerificationConfig::with_timeout
VerificationConfig_with_timeout(self, timeout_ms) == [self EXCEPT !.timeout_ms = timeout_ms]

\* one call of a builder method: with_mode takes a mode, the others a number
BuilderCall(builder, value) ==
  IF builder = "with_mode" THEN [builder |-> builder, mode |-> value]
  ELSE [builder |-> builder, number |-> value]

\* the argument of that call
Supplied(step) == IF step.builder = "with_mode" THEN step.mode ELSE step.number

\* one builder method applied to a policy
WithField(self, step) ==
  IF step.builder = "with_mode" THEN VerificationConfig_with_mode(self, step.mode)
  ELSE IF step.builder = "with_max_retries"
    THEN VerificationConfig_with_max_retries(self, step.number)
  ELSE IF step.builder = "with_retry_delay"
    THEN VerificationConfig_with_retry_delay(self, step.number)
  ELSE IF step.builder = "with_verification_delay"
    THEN VerificationConfig_with_verification_delay(self, step.number)
  ELSE VerificationConfig_with_timeout(self, step.number)

\* builder methods applied one after the other: self.with_a(x).with_b(y)...
RECURSIVE BuilderChain(_, _)
BuilderChain(self, steps) ==
  IF steps = << >> THEN self
  ELSE BuilderChain(WithField(self, Head(steps)), Tail(steps))

\* QwiicRelayConfig::with_verification_and_timing
QwiicRelayConfig(relay_count, verification, write_delay_us, state_change_delay_ms, init_delay_ms) ==
  [relay_count |-> relay_count, verification |-> verification,
   write_delay_us |-> write_delay_us,
   state_change_delay_ms |-> state_change_delay_ms,
   init_delay_ms |-> init_delay_ms]

\* QwiicRelayConfig::with_verification
QwiicRelayConfig_with_verification(relay_count, verification) ==
  QwiicRelayConfig(relay_count, verification, 10, 10, 200)

\* (mutant) the standard configuration with verification switched off
QwiicRelayConfig_newUnverified(relay_count) ==
  QwiicRelayConfig(relay_count, VerificationConfig_disabled, 10, 10, 200)

\* QwiicRelayConfig::new
QwiicRelayConfig_new(relay_count) ==
  QwiicRelayConfig(relay_count, VerificationConfig_default, 10, 10, 200)

\* QwiicRelayConfig::with_timing
QwiicRelayConfig_with_timing(relay_count, write_delay_us, state_change_delay_ms, init_delay_ms) ==
  QwiicRelayConfig(relay_count, VerificationConfig_default,
                   write_delay_us, state_change_delay_ms, init_delay_ms)

\* QwiicRelayConfig::for_solid_state
QwiicRelayConfig_for_solid_state(relay_count) ==
  QwiicRelayConfig(relay_count, VerificationConfig_default, 5, 5, 100)

\* (mutant) the mechanical preset with the write delay of the standard one
QwiicRelayConfig_for_mechanicalStandardWrite(relay_count) ==
  QwiicRelayConfig(relay_count, VerificationConfig_default, 10, 20, 250)

\* QwiicRelayConfig::for_mechanical
QwiicRelayConfig_for_mechanical(relay_count) ==
  QwiicRelayConfig(relay_count, VerificationConfig_default, 15, 20, 250)

\* impl Default for QwiicRelayConfig
QwiicRelayConfig_default == QwiicRelayConfig_new(MaxRelays)

(* ------------------------------- state -------------------------------- *)
VARIABLES
  detect,        \* auto_detect_timing: its locals and its position while it runs
  i2c_addr,      \* the bus address QwiicRelay.dev was opened at
  actorLeft,     \* the device: changes an external actor may still make to a relay
  config,        \* QwiicRelay.config
  relay_states,  \* the device: relay_states[i] is what register 0x04+i holds
  ignoreLeft,    \* the device: toggle writes it will still ignore
  faultsLeft,    \* the bus: transport failures it may still produce
  clock,         \* the platform: [gap, bus] time taken by a clock read / bus call
  now,           \* the monotonic clock (us)
  todo,          \* the caller: the calls it has still to make
  log,           \* the caller: every finished call with its result and trace
  call,          \* the call in progress
  pc,            \* position inside the call in progress
  attempt,       \* set_relay_*_verified: the loop variable
  start_time,    \* set_relay_*_verified: Instant::now() at entry
  trace          \* bus operations, sleeps and clock checks of the call in progress

vars == << detect, i2c_addr, actorLeft, config, relay_states, ignoreLeft, faultsLeft, clock, now, todo, log,
           call, pc, attempt, start_time, trace >>

(* ------------------------------ results ------------------------------- *)
Result(kind) ==
  [kind |-> kind, relay_num |-> None, expected |-> FALSE, actual |-> FALSE,
   attempts |-> 0, operation |-> "", duration_ms |-> 0, value |-> 0, num |-> 0]

Ok == Result("Ok")
OkValue(v) == [Result("Ok") EXCEPT !.value = v]
I2CError == Result("I2C")
NoSuchMethod == Result("NoSuchMethod")
Panic == Result("Panic")
\* (mutant) the error reports the state asked for as the state read
StateVerificationFailedEcho(relay_num, expected, actual, attempts) ==
  [Result("StateVerificationFailed") EXCEPT !.relay_num = relay_num,
     !.expected = expected, !.actual = expected, !.attempts = attempts]

StateVerificationFailed(relay_num, expected, actual, attempts) ==
  [Result("StateVerificationFailed") EXCEPT !.relay_num = relay_num,
     !.expected = expected, !.actual = actual, !.attempts = attempts]
Timeout(relay_num, operation, duration_ms) ==
  [Result("Timeout") EXCEPT !.relay_num = relay_num, !.operation = operation,
     !.duration_ms = duration_ms]
\* (mutant) the address error variant of error.rs
InvalidI2CAddress(addr) == [Result("InvalidI2CAddress") EXCEPT !.num = addr]

InvalidConfiguration(addr) == [Result("InvalidConfiguration") EXCEPT !.num = addr]

\* one entry of a trace: a clock check (a: the elapsed time measured), a bus
\* read (a: register, b: byte), a bus write (a: byte), or a sleep (a: duration)
Event(kind, what, a, b, ok, att) ==
  [ev |-> kind, what |-> what, a |-> a, b |-> b, ok |-> ok, att |-> att]
Ev(kind, what, a, b, ok) == Event(kind, what, a, b, ok, attempt)

(* ------------------------------- device ------------------------------- *)
\* what a register read returns: the status registers 0x04+i hold 1 or 0
DevRead(reg) ==
  IF reg - StatusBase \in DOMAIN relay_states
    THEN (IF relay_states[reg - StatusBase] THEN 1 ELSE 0)
    ELSE 0

\* the relay states after the device has obeyed a single-byte command
DevObey(cmd) ==
  IF cmd = TurnAllOn THEN [i \in DOMAIN relay_states |-> IF i = 0 THEN relay_states[i] ELSE TRUE]
  ELSE IF cmd = TurnAllOff THEN [i \in DOMAIN relay_states |-> IF i = 0 THEN relay_states[i] ELSE FALSE]
  ELSE IF cmd = ToggleAll THEN [i \in DOMAIN relay_states |-> IF i = 0 THEN relay_states[i] ELSE ~relay_states[i]]
  ELSE IF cmd - DualQuadToggleBase \in 1..MaxRelays
    THEN [relay_states EXCEPT ![cmd - DualQuadToggleBase] = ~@]
  ELSE relay_states

\* the device takes a single-byte command: it ignores it while ignoreLeft
\* lasts, and obeys it afterwards
DevWrite(cmd) ==
  IF ignoreLeft # 0
    THEN /\ ignoreLeft' = ignoreLeft - 1
         /\ UNCHANGED relay_states
    ELSE /\ relay_states' = DevObey(cmd)
         /\ UNCHANGED ignoreLeft

\* whether the next bus call fails
BusFail == IF faultsLeft > 0 THEN {TRUE, FALSE} ELSE {FALSE}

(* --------------------------- code, pure parts -------------------------- *)
\* (mutant) the verification loop runs in every mode
VerifiesAlways(mode) == TRUE

\* set_relay_on / set_relay_off: which of the two internal methods runs
Verifies(mode) == mode # "Disabled"

\* expected_state of set_relay_on_verified / set_relay_off_verified
ExpectedState(op) == op = "set_relay_on"

\* (mutant) the toggle is written whatever was read
NeedsWriteAlways(status, op) == TRUE

\* set_relay_*_unverified: the toggle is written only from the other state
NeedsWrite(status, op) ==
  IF op = "set_relay_on" THEN status = "Off" ELSE status = "On"

\* the register get_relay_state and set_relay_*_unverified read
StatusRegister(relay_num) ==
  IF relay_num = None
    THEN {[panic |-> FALSE, val |-> SingleFirmwareVersion]}
    ELSE U8Add(StatusBase, relay_num[1])

\* (mutant) the toggle command of the next relay
ToggleCommandOffByOne(num) == U8Add(DualQuadToggleBase, num + 1)

\* (Command::DualQuadToggleBase as u8) + num
ToggleCommand(num) == U8Add(DualQuadToggleBase, num)

\* the byte set_relay_*_unverified(None) writes
UnitCommand(op) == IF op = "set_relay_on" THEN RelayState_On ELSE RelayState_Off

\* (mutant) the two whole-board commands exchanged
AllCommandSwapped(op) == IF op = "set_all_relays_on" THEN TurnAllOff ELSE TurnAllOn

\* (mutant) the whole-board toggle in place of all-on / all-off
AllCommandToggleAll(op) == ToggleAll

\* the byte set_all_relays_on / set_all_relays_off write
AllCommand(op) == IF op = "set_all_relays_on" THEN TurnAllOn ELSE TurnAllOff

\* (mutant) the budget is spent as soon as it is reached
TimedOutInclusive(elapsed, timeout) == elapsed >= timeout

\* (mutant) the budget is never spent
TimedOutNever(elapsed, timeout) == FALSE

\* start_time.elapsed() > timeout
TimedOut(elapsed, timeout) == elapsed > timeout

\* (mutant) the attempt before the last one already counts as the last
LastAttemptEarly(att, max_retries) == att + 1 >= max_retries

\* (mutant) the loop runs one attempt more
LastAttemptLate(att, max_retries) == att = max_retries + 1

\* attempt == max_retries
LastAttempt(att, max_retries) == att = max_retries

\* (mutant) Lenient lets the final mismatch pass
ExhaustionResultLenientOk(mode, error) == IF mode = "Lenient" THEN Ok ELSE error

\* what the last attempt returns on a mismatch: the error, in Lenient mode
\* as in Strict mode
ExhaustionResult(mode, error) == IF mode = "Lenient" THEN error ELSE error

\* (mutant) the handle follows the device to its new address
HandleAddressFollowsDevice(addr, new_address) == new_address

\* the address self.dev talks to after change_i2c_address has sent the
\* command: self.dev is not reopened
HandleAddressAfterChange(addr, new_address) == addr

\* (0x07..=0x78).contains(&new_address)
ValidAddress(new_address) == new_address >= AddressLow /\ new_address <= AddressHigh

(* ------------------------------ the caller ----------------------------- *)
SetOps == {"set_relay_on", "set_relay_off"}
AllOps == {"set_all_relays_on", "set_all_relays_off"}

\* the operations impl QwiicRelay offers on an open handle
Methods ==
  SetOps \cup AllOps
    \cup {"new", "get_relay_state", "get_version", "write_byte", "update_config",
          "set_write_delay", "set_state_change_delay", "auto_detect_timing",
          "change_i2c_address", "init"}

Call(op, relay_num, arg) == [op |-> op, relay_num |-> relay_num, arg |-> arg]

\* the call the caller makes next, with what the device and the configuration
\* were like on entry
Entered ==
  [op |-> Head(todo).op, relay_num |-> Head(todo).relay_num, arg |-> Head(todo).arg,
   ignore0 |-> ignoreLeft, states0 |-> relay_states, faults0 |-> faultsLeft,
   config |-> config, addr |-> i2c_addr, actor0 |-> actorLeft]

NoCall ==
  [op |-> "", relay_num |-> None, arg |-> 0,
   ignore0 |-> 0, states0 |-> [i \in 0..MaxRelays |-> FALSE], faults0 |-> 0,
   config |-> config, addr |-> i2c_addr, actor0 |-> actorLeft]

\* the call in progress returns r at time t, having left trace tr
Return(r, tr, t) ==
  /\ log' = Append(log, [call |-> call, result |-> r, trace |-> tr])
  /\ trace' = tr
  /\ now' = t
  /\ pc' = "idle"

\* (mutant) the single relay board is read first as well
UnverifiedEntryReadsFirst(relay_num) == "read"

\* where set_relay_*_unverified starts, and where control goes after it
UnverifiedEntry(relay_num) == IF relay_num = None THEN "write" ELSE "read"

(* ------------------------------ operations ----------------------------- *)
\* set_relay_on / set_relay_off: entry and dispatch on the verification mode
SetRelay ==
  /\ pc = "idle"
  /\ todo # << >>
  /\ Head(todo).op \in SetOps
  /\ call' = Entered
  /\ todo' = Tail(todo)
  /\ trace' = << >>
  /\ attempt' = 0
  /\ start_time' = now
  /\ pc' = IF Verifies(config.verification.mode)
             THEN "check"
             ELSE UnverifiedEntry(Head(todo).relay_num)
  /\ UNCHANGED << detect, i2c_addr, actorLeft, config, relay_states, ignoreLeft, faultsLeft, clock, now, log >>

\* set_relay_*_verified: the elapsed-time check at the top of the loop body
TimeoutCheck ==
  /\ pc = "check"
  /\ LET t == now + clock.gap
         elapsed == t - start_time
         tr == Append(trace, Ev("check", "elapsed", elapsed, 0, TRUE))
     IN IF TimedOut(elapsed, Ms(config.verification.timeout_ms))
          THEN Return(Timeout(call.relay_num, call.op, config.verification.timeout_ms), tr, t)
          ELSE /\ pc' = UnverifiedEntry(call.relay_num)
               /\ trace' = tr
               /\ now' = t
               /\ UNCHANGED log
  /\ UNCHANGED << detect, i2c_addr, actorLeft, config, relay_states, ignoreLeft, faultsLeft, clock, todo, call,
                  attempt, start_time >>

\* set_relay_*_unverified(Some(num)): the read of the current state
ReadCurrent ==
  /\ pc = "read"
  /\ \E fail \in BusFail, r \in StatusRegister(call.relay_num) :
       LET t == now + clock.bus
           temp == DevRead(r.val)
           tr == Append(trace, Ev("read", "current", r.val, IF fail THEN 0 ELSE temp, ~fail))
       IN IF r.panic THEN /\ Return(Panic, trace, now)
                          /\ UNCHANGED faultsLeft
          ELSE IF fail THEN /\ Return(I2CError, tr, t)
                            /\ faultsLeft' = faultsLeft - 1
          ELSE /\ UNCHANGED faultsLeft
               /\ IF NeedsWrite(RelayStatusFromU8(temp), call.op)
                    THEN /\ pc' = "write"
                         /\ trace' = tr
                         /\ now' = t
                         /\ UNCHANGED log
                    ELSE IF Verifies(config.verification.mode)
                      THEN /\ pc' = "verify"
                           /\ trace' = tr
                           /\ now' = t
                           /\ UNCHANGED log
                      ELSE Return(Ok, tr, t)
  /\ UNCHANGED << detect, i2c_addr, actorLeft, config, relay_states, ignoreLeft, clock, todo, call, attempt,
                  start_time >>

\* (mutant) write_byte sends the toggle base whatever byte the caller gave
CommandDropsByte ==
  IF call.op = "write_byte" THEN {[panic |-> FALSE, val |-> DualQuadToggleBase]}
  ELSE IF call.op \in AllOps THEN {[panic |-> FALSE, val |-> AllCommand(call.op)]}
  ELSE IF call.relay_num = None THEN {[panic |-> FALSE, val |-> UnitCommand(call.op)]}
  ELSE ToggleCommand(call.relay_num[1])

\* the byte the call in progress hands to write_byte
Command ==
  IF call.op = "write_byte" THEN {[panic |-> FALSE, val |-> call.arg]}
  ELSE IF call.op \in AllOps THEN {[panic |-> FALSE, val |-> AllCommand(call.op)]}
  ELSE IF call.relay_num = None THEN {[panic |-> FALSE, val |-> UnitCommand(call.op)]}
  ELSE ToggleCommand(call.relay_num[1])

\* what that byte is: a raw byte of the caller, a whole-board command, the
\* on/off byte of a single relay board, or the toggle of relay num
CommandKind ==
  IF call.op = "write_byte" THEN "raw"
  ELSE IF call.op \in AllOps THEN "all"
  ELSE IF call.relay_num = None THEN "unit"
  ELSE "toggle"

\* self.config.write_delay_us * 1000, the nanoseconds write_byte sleeps
WriteDelayNanos(write_delay_us) == U32Mul(write_delay_us, NanosPerMicro)

\* write_byte: called by the caller, by set_all_relays_on / off, or by
\* set_relay_*_unverified
WriteByte ==
  /\ pc = "write"
  /\ \E fail \in BusFail, c \in Command, ns \in WriteDelayNanos(config.write_delay_us) :
       LET t == now + clock.bus
           wd == MicrosOfNanos(ns)
           trw == Append(trace, Ev("write", CommandKind, c.val, 0, ~fail))
           trs == Append(trw, Ev("sleep", "write_delay", wd, 0, TRUE))
       IN IF c.panic THEN /\ Return(Panic, trace, now)
                          /\ UNCHANGED << faultsLeft, relay_states, ignoreLeft >>
          ELSE IF fail THEN /\ Return(I2CError, trw, t)
                            /\ faultsLeft' = faultsLeft - 1
                            /\ UNCHANGED << relay_states, ignoreLeft >>
          ELSE /\ UNCHANGED faultsLeft
               /\ DevWrite(c.val)
               /\ IF ns.panic THEN Return(Panic, trw, t)
                  ELSE IF call.op \in SetOps /\ Verifies(config.verification.mode)
                    THEN /\ pc' = "verify"
                         /\ trace' = trs
                         /\ now' = t + wd
                         /\ UNCHANGED log
                    ELSE Return(Ok, trs, t + wd)
  /\ UNCHANGED << detect, i2c_addr, actorLeft, config, clock, todo, call, attempt, start_time >>

\* set_relay_*_verified: sleep verification_delay, read the state back, and
\* return or go round the loop again
ReadBack ==
  /\ pc = "verify"
  /\ \E fail \in BusFail, r \in StatusRegister(call.relay_num),
        n \in U8Add(attempt, 1) :
       LET vd == Ms(config.verification.verification_delay_ms)
           rd == Ms(config.verification.retry_delay_ms)
           t == now + vd + clock.bus
           temp == DevRead(r.val)
           actual == BoolFromRelayStatus(RelayStatusFromU8(temp))
           expected == ExpectedState(call.op)
           trv == Append(trace, Ev("sleep", "verification_delay", vd, 0, TRUE))
           tr == Append(trv, Ev("read", "readback", r.val, IF fail THEN 0 ELSE temp, ~fail))
           last == LastAttempt(attempt, config.verification.max_retries)
       IN IF r.panic THEN /\ Return(Panic, trv, now + vd)
                          /\ UNCHANGED << faultsLeft, attempt >>
          ELSE /\ faultsLeft' = (IF fail THEN faultsLeft - 1 ELSE faultsLeft)
               /\ IF ~fail /\ actual = expected
                    THEN /\ Return(Ok, tr, t)
                         /\ UNCHANGED attempt
                    ELSE IF last
                      THEN /\ Return(IF fail THEN I2CError
                                     ELSE IF n.panic THEN Panic
                                     ELSE ExhaustionResult(config.verification.mode,
                                            StateVerificationFailed(call.relay_num, expected, actual, n.val)),
                                     tr, t)
                           /\ UNCHANGED attempt
                      ELSE /\ trace' = Append(tr, Ev("sleep", "retry_delay", rd, 0, TRUE))
                           /\ now' = t + rd
                           /\ attempt' = attempt + 1
                           /\ pc' = "check"
                           /\ UNCHANGED log
  /\ UNCHANGED << detect, i2c_addr, actorLeft, config, relay_states, ignoreLeft, clock, todo, call, start_time >>

\* set_all_relays_on / set_all_relays_off, and write_byte called by the
\* caller: entry; the call is the one write_byte
WriteCall ==
  /\ pc = "idle"
  /\ todo # << >>
  /\ Head(todo).op \in AllOps \cup {"write_byte"}
  /\ call' = Entered
  /\ todo' = Tail(todo)
  /\ trace' = << >>
  /\ attempt' = 0
  /\ pc' = "write"
  /\ UNCHANGED << detect, i2c_addr, actorLeft, config, relay_states, ignoreLeft, faultsLeft, clock, now, log,
                  start_time >>

\* QwiicRelay::new: the caller opens a handle with another configuration, on
\* a device set up as the device of the session was at its first call
NewHandle ==
  /\ pc = "idle"
  /\ todo # << >>
  /\ Head(todo).op = "new"
  /\ log # << >>
  /\ config' = Head(todo).arg
  /\ relay_states' = log[1].call.states0
  /\ ignoreLeft' = log[1].call.ignore0
  /\ faultsLeft' = log[1].call.faults0
  /\ log' = Append(log, [call |-> Entered, result |-> Ok, trace |-> << >>])
  /\ call' = Entered
  /\ todo' = Tail(todo)
  /\ trace' = << >>
  /\ attempt' = 0
  /\ UNCHANGED << detect, i2c_addr, actorLeft, clock, now, pc, start_time >>

\* the conversions of RelayStatus, applied by the caller
Conversions == {"RelayStatus_from_u8", "u8_from_RelayStatus", "bool_round_trip", "u8_round_trip"}

Converted(op, arg) ==
  IF op = "RelayStatus_from_u8" THEN RelayStatusFromU8(arg)
  ELSE IF op = "u8_from_RelayStatus" THEN U8FromRelayStatus(arg)
  ELSE IF op = "bool_round_trip" THEN BoolFromRelayStatus(RelayStatusFromBool(arg))
  ELSE U8FromRelayStatus(RelayStatusFromU8(arg))

Convert ==
  /\ pc = "idle"
  /\ todo # << >>
  /\ Head(todo).op \in Conversions
  /\ log' = Append(log, [call |-> Entered,
                          result |-> OkValue(Converted(Head(todo).op, Head(todo).arg)),
                          trace |-> << >>])
  /\ call' = Entered
  /\ todo' = Tail(todo)
  /\ trace' = << >>
  /\ attempt' = 0
  /\ UNCHANGED << detect, i2c_addr, actorLeft, config, relay_states, ignoreLeft, faultsLeft, clock, now, pc,
                  start_time >>

\* (mutant) update_config takes the timing of the new configuration only
UpdatedTimingOnly(old, new) ==
  [old EXCEPT !.write_delay_us = new.write_delay_us,
              !.state_change_delay_ms = new.state_change_delay_ms,
              !.init_delay_ms = new.init_delay_ms]

\* update_config: self.config = config
Updated(old, new) == new

\* set_write_delay: self.config.write_delay_us = delay_us
WithWriteDelay(old, delay_us) == [old EXCEPT !.write_delay_us = delay_us]

\* set_state_change_delay: self.config.state_change_delay_ms = delay_ms
WithStateChangeDelay(old, delay_ms) == [old EXCEPT !.state_change_delay_ms = delay_ms]

Setters == {"update_config", "set_write_delay", "set_state_change_delay"}

\* update_config, set_write_delay, set_state_change_delay
SetConfig ==
  /\ pc = "idle"
  /\ todo # << >>
  /\ Head(todo).op \in Setters
  /\ config' = (IF Head(todo).op = "update_config" THEN Updated(config, Head(todo).arg)
                ELSE IF Head(todo).op = "set_write_delay"
                  THEN WithWriteDelay(config, Head(todo).arg)
                ELSE WithStateChangeDelay(config, Head(todo).arg))
  /\ log' = Append(log, [call |-> Entered, result |-> Ok, trace |-> << >>])
  /\ call' = Entered
  /\ todo' = Tail(todo)
  /\ trace' = << >>
  /\ attempt' = 0
  /\ UNCHANGED << detect, i2c_addr, actorLeft, relay_states, ignoreLeft, faultsLeft, clock, now,
                  pc, start_time >>

(* -------------------------- auto_detect_timing ------------------------- *)
\* test_configs: (write_us, state_ms), from fastest to slowest
TestConfigs == << << 5, 5 >>, << 10, 10 >>, << 15, 15 >>, << 20, 20 >> >>
\* for _ in 0..3
TestCycles == 3
\* the safety margin added to the candidate that worked
SafetyMargin == 2

\* self.config.write_delay_us = *write_us; self.config.state_change_delay_ms = *state_ms
WithCandidate(c, cand) ==
  [c EXCEPT !.write_delay_us = cand[1], !.state_change_delay_ms = cand[2]]

\* (mutant) the candidate that worked is kept without the margin
TunedNoMargin(c, cand) ==
  [c EXCEPT !.write_delay_us = cand[1], !.state_change_delay_ms = cand[2]]

\* self.config.write_delay_us = write_us + 2; self.config.state_change_delay_ms = state_ms + 2
Tuned(c, cand) ==
  [c EXCEPT !.write_delay_us = cand[1] + SafetyMargin,
            !.state_change_delay_ms = cand[2] + SafetyMargin]

\* (mutant) the timing of the last candidate stays in the configuration
RestoredKeepsLast(original_config, current) == current

\* self.config = original_config
Restored(original_config, current) == original_config

\* auto_detect_timing is not running
NoDetect ==
  [on |-> FALSE, cand |-> 0, cycle |-> 0, phase |-> "", original |-> config,
   entered |-> NoCall, rest |-> << >>, events |-> << >>]

\* the steps of one test cycle and the call each makes on relay 1
InnerCall(phase) ==
  IF phase = "on" THEN Call("set_relay_on", Some(1), 0)
  ELSE IF phase \in {"off", "final"} THEN Call("set_relay_off", Some(1), 0)
  ELSE Call("get_relay_state", Some(1), 0)

\* whether the result of the call of this step ends the test of the candidate
InnerFailed(phase, res) ==
  IF phase \in {"on", "off"} THEN res.kind # "Ok"
  ELSE IF phase = "get_on" THEN res.kind # "Ok" \/ res.value = 0
  ELSE res.kind # "Ok" \/ res.value # 0

\* auto_detect_timing: entry; the first candidate is put into self.config
\* and its first set_relay_on(Some(1)) is called
AutoDetectTiming ==
  /\ pc = "idle"
  /\ todo # << >>
  /\ Head(todo).op = "auto_detect_timing"
  /\ ~detect.on
  /\ detect' = [on |-> TRUE, cand |-> 1, cycle |-> 1, phase |-> "on", original |-> config,
                entered |-> Entered, rest |-> Tail(todo),
                events |-> << Event("config", "candidate", TestConfigs[1][1], TestConfigs[1][2],
                                    TRUE, 0) >>]
  /\ config' = WithCandidate(config, TestConfigs[1])
  /\ todo' = << InnerCall("on") >>
  /\ UNCHANGED << i2c_addr, actorLeft, relay_states, ignoreLeft, faultsLeft, clock, now, log,
                  call, pc, attempt, start_time, trace >>

\* auto_detect_timing returns r
DetectReturn(r, events) ==
  /\ log' = Append(log, [call |-> detect.entered, result |-> r, trace |-> events])
  /\ todo' = detect.rest
  /\ detect' = [detect EXCEPT !.on = FALSE, !.events = events]

\* auto_detect_timing goes on to the step phase of cycle cycle of candidate cand
DetectGoes(cand, cycle, phase, events) ==
  /\ detect' = [detect EXCEPT !.cand = cand, !.cycle = cycle, !.phase = phase,
                              !.events = events]
  /\ todo' = << InnerCall(phase) >>
  /\ UNCHANGED log

\* auto_detect_timing: what it does with the result of the call it made
DetectStep ==
  /\ pc = "idle"
  /\ detect.on
  /\ todo = << >>
  /\ log # << >>
  /\ LET res == log[Len(log)].result
         sd == Ms(config.state_change_delay_ms)
         slept == Append(detect.events, Event("sleep", "state_change_delay", sd, 0, TRUE, 0))
     IN IF res.kind = "Panic"
          THEN /\ DetectReturn(Panic, detect.events)
               /\ UNCHANGED << config, now >>
        ELSE IF detect.phase = "final"
          THEN /\ DetectReturn(OkValue(1), detect.events)
               /\ UNCHANGED << config, now >>
        ELSE IF InnerFailed(detect.phase, res)
          THEN IF detect.cand < Len(TestConfigs)
                 THEN /\ config' = WithCandidate(config, TestConfigs[detect.cand + 1])
                      /\ DetectGoes(detect.cand + 1, 1, "on",
                            Append(detect.events,
                              Event("config", "candidate", TestConfigs[detect.cand + 1][1],
                                    TestConfigs[detect.cand + 1][2], TRUE, 0)))
                      /\ UNCHANGED now
                 ELSE /\ config' = Restored(detect.original, config)
                      /\ DetectReturn(OkValue(0), detect.events)
                      /\ UNCHANGED now
        ELSE IF detect.phase = "on"
          THEN /\ DetectGoes(detect.cand, detect.cycle, "get_on", slept)
               /\ now' = now + sd
               /\ UNCHANGED config
        ELSE IF detect.phase = "get_on"
          THEN /\ DetectGoes(detect.cand, detect.cycle, "off", detect.events)
               /\ UNCHANGED << config, now >>
        ELSE IF detect.phase = "off"
          THEN /\ DetectGoes(detect.cand, detect.cycle, "get_off", slept)
               /\ now' = now + sd
               /\ UNCHANGED config
        ELSE IF detect.cycle < TestCycles
          THEN /\ DetectGoes(detect.cand, detect.cycle + 1, "on", detect.events)
               /\ UNCHANGED << config, now >>
        ELSE /\ config' = Tuned(config, TestConfigs[detect.cand])
             /\ DetectGoes(detect.cand, detect.cycle, "final", detect.events)
             /\ UNCHANGED now
  /\ UNCHANGED << i2c_addr, actorLeft, relay_states, ignoreLeft, faultsLeft, clock, call, pc,
                  attempt, start_time, trace >>

\* something other than this handle (a button, another bus master) switches
\* a relay while a call is in progress
ActorSwitches ==
  /\ actorLeft > 0
  /\ pc # "idle"
  /\ \E n \in 0..1 : relay_states' = [relay_states EXCEPT ![n] = ~@]
  /\ actorLeft' = actorLeft - 1
  /\ UNCHANGED << detect, i2c_addr, config, ignoreLeft, faultsLeft, clock, now, todo, log, call,
                  pc, attempt, start_time, trace >>

\* the constructors of VerificationConfig and QwiicRelayConfig
PolicyPresets ==
  {"VerificationConfig_default", "VerificationConfig_strict",
   "VerificationConfig_lenient", "VerificationConfig_disabled"}

ConfigConstructors ==
  {"QwiicRelayConfig_new", "QwiicRelayConfig_default", "QwiicRelayConfig_with_timing",
   "QwiicRelayConfig_for_solid_state", "QwiicRelayConfig_for_mechanical"}

Constructors == PolicyPresets \cup ConfigConstructors \cup {"builder_chain"}

\* the arguments of a QwiicRelayConfig constructor (each takes those it has)
Timing(relay_count, write_delay_us, state_change_delay_ms, init_delay_ms) ==
  [relay_count |-> relay_count, write_delay_us |-> write_delay_us,
   state_change_delay_ms |-> state_change_delay_ms, init_delay_ms |-> init_delay_ms]

Constructed(op, arg) ==
  IF op = "builder_chain" THEN BuilderChain(arg.base, arg.steps)
  ELSE IF op = "VerificationConfig_default" THEN VerificationConfig_default
  ELSE IF op = "VerificationConfig_strict" THEN VerificationConfig_strict
  ELSE IF op = "VerificationConfig_lenient" THEN VerificationConfig_lenient
  ELSE IF op = "VerificationConfig_disabled" THEN VerificationConfig_disabled
  ELSE IF op = "QwiicRelayConfig_new" THEN QwiicRelayConfig_new(arg.relay_count)
  ELSE IF op = "QwiicRelayConfig_default" THEN QwiicRelayConfig_default
  ELSE IF op = "QwiicRelayConfig_with_timing"
    THEN QwiicRelayConfig_with_timing(arg.relay_count, arg.write_delay_us,
                                      arg.state_change_delay_ms, arg.init_delay_ms)
  ELSE IF op = "QwiicRelayConfig_for_solid_state"
    THEN QwiicRelayConfig_for_solid_state(arg.relay_count)
  ELSE QwiicRelayConfig_for_mechanical(arg.relay_count)

\* the caller builds a verification policy or a configuration
Construct ==
  /\ pc = "idle"
  /\ todo # << >>
  /\ Head(todo).op \in Constructors
  /\ log' = Append(log, [call |-> Entered,
                          result |-> OkValue(Constructed(Head(todo).op, Head(todo).arg)),
                          trace |-> << >>])
  /\ call' = Entered
  /\ todo' = Tail(todo)
  /\ trace' = << >>
  /\ attempt' = 0
  /\ UNCHANGED << detect, i2c_addr, actorLeft, config, relay_states, ignoreLeft, faultsLeft,
                  clock, now, pc, start_time >>

\* a call of an operation impl QwiicRelay does not have cannot be made:
\* nothing reaches the bus and nothing changes
Unserved ==
  /\ pc = "idle"
  /\ todo # << >>
  /\ Head(todo).op \notin Methods \cup Conversions \cup Constructors
  /\ log' = Append(log, [call |-> Entered, result |-> NoSuchMethod, trace |-> << >>])
  /\ call' = Entered
  /\ todo' = Tail(todo)
  /\ trace' = << >>
  /\ attempt' = 0
  /\ UNCHANGED << detect, i2c_addr, actorLeft, config, relay_states, ignoreLeft, faultsLeft, clock, now, pc,
                  start_time >>

\* get_version
GetVersion ==
  /\ pc = "idle"
  /\ todo # << >>
  /\ Head(todo).op = "get_version"
  /\ \E fail \in BusFail :
       LET t == now + clock.bus
           version == DevRead(SingleFirmwareVersion)
           tr == << Event("read", "version", SingleFirmwareVersion, IF fail THEN 0 ELSE version, ~fail, 0) >>
       IN /\ log' = Append(log, [call |-> Entered,
                                 result |-> IF fail THEN I2CError ELSE OkValue(version),
                                 trace |-> tr])
          /\ trace' = tr
          /\ now' = t
          /\ faultsLeft' = (IF fail THEN faultsLeft - 1 ELSE faultsLeft)
  /\ call' = Entered
  /\ todo' = Tail(todo)
  /\ attempt' = 0
  /\ UNCHANGED << detect, i2c_addr, actorLeft, config, relay_states, ignoreLeft, clock, pc, start_time >>

\* get_relay_state, called by the caller
GetRelayState ==
  /\ pc = "idle"
  /\ todo # << >>
  /\ Head(todo).op = "get_relay_state"
  /\ \E fail \in BusFail, r \in StatusRegister(Head(todo).relay_num) :
       LET t == now + clock.bus
           temp == DevRead(r.val)
           tr == << Event("read", "get", r.val, IF fail THEN 0 ELSE temp, ~fail, 0) >>
           res == IF r.panic THEN Panic
                  ELSE IF fail THEN I2CError
                  ELSE OkValue(IF BoolFromRelayStatus(RelayStatusFromU8(temp)) THEN 1 ELSE 0)
       IN /\ log' = Append(log, [call |-> Entered, result |-> res,
                                 trace |-> IF r.panic THEN << >> ELSE tr])
          /\ trace' = (IF r.panic THEN << >> ELSE tr)
          /\ now' = (IF r.panic THEN now ELSE t)
          /\ faultsLeft' = (IF fail /\ ~r.panic THEN faultsLeft - 1 ELSE faultsLeft)
  /\ call' = Entered
  /\ todo' = Tail(todo)
  /\ attempt' = 0
  /\ UNCHANGED << detect, i2c_addr, actorLeft, config, relay_states, ignoreLeft, clock, pc, start_time >>

\* change_i2c_address
ChangeI2CAddress ==
  /\ pc = "idle"
  /\ todo # << >>
  /\ Head(todo).op = "change_i2c_address"
  /\ \E fail \in BusFail :
       LET new_address == Head(todo).arg
           t == now + clock.bus
           trw == << Event("write_data", "address", CHANGE_ADDRESS_COMMAND, new_address, ~fail, 0) >>
           trs == Append(trw, Event("sleep", "address_settle", Ms(AddressSettleMs), 0, TRUE, 0))
       IN IF ~ValidAddress(new_address)
            THEN /\ log' = Append(log, [call |-> Entered,
                                        result |-> InvalidConfiguration(new_address),
                                        trace |-> << >>])
                 /\ trace' = << >>
                 /\ UNCHANGED << now, faultsLeft, i2c_addr >>
            ELSE IF fail
              THEN /\ log' = Append(log, [call |-> Entered, result |-> I2CError, trace |-> trw])
                   /\ trace' = trw
                   /\ now' = t
                   /\ faultsLeft' = faultsLeft - 1
                   /\ UNCHANGED i2c_addr
              ELSE /\ log' = Append(log, [call |-> Entered, result |-> Ok, trace |-> trs])
                   /\ trace' = trs
                   /\ now' = t + Ms(AddressSettleMs)
                   /\ i2c_addr' = HandleAddressAfterChange(i2c_addr, new_address)
                   /\ UNCHANGED faultsLeft
  /\ call' = Entered
  /\ todo' = Tail(todo)
  /\ attempt' = 0
  /\ UNCHANGED << detect, actorLeft, config, relay_states, ignoreLeft, clock, pc, start_time >>

Next ==
  \/ SetRelay
  \/ TimeoutCheck
  \/ ReadCurrent
  \/ WriteByte
  \/ ReadBack
  \/ WriteCall
  \/ NewHandle
  \/ Convert
  \/ Construct
  \/ SetConfig
  \/ ActorSwitches
  \/ AutoDetectTiming
  \/ DetectStep
  \/ Unserved
  \/ GetVersion
  \/ GetRelayState
  \/ ChangeI2CAddress

(* ------------------------------ sessions ------------------------------- *)
\* A session is a handle as constructed (QwiicRelay::new with some
\* configuration), a device, a platform clock and the calls the caller makes.
Clocks == {[gap |-> g, bus |-> b] : g \in {0, ClockTick}, b \in {0, BusTime}}
RealClock == [gap |-> ClockTick, bus |-> BusTime]

States0 == {[i \in 0..MaxRelays |-> b] : b \in BOOLEAN}
\* boards with some relays on and some off
MixedStates == {[i \in 0..MaxRelays |-> (i % 2 = 1) = b] : b \in BOOLEAN}

RelayNums == {None} \cup {Some(n) : n \in 0..(MaxRelays + 1)}

AddressSamples == {0, 5, 7, 8, 9, 119, 120, 121, 127, 128}

Presets == {VerificationConfig_strict, VerificationConfig_lenient, VerificationConfig_disabled}

\* (retry_delay_ms, verification_delay_ms, timeout_ms, write_delay_us)
Profiles ==
  { << 0, 0, 0, 0 >>, << 50, 20, 1000, 10 >>, << 50, 20, 60, 10 >>, << 200, 20, 60, 10 >> }

BoardScripts ==
  {<< Call(s, rn, 0), Call("get_relay_state", rn, 0) >> : s \in SetOps, rn \in RelayNums}
  \cup {<< Call(s, rn, 0), Call(s, rn, 0) >> : s \in SetOps, rn \in RelayNums}
  \cup {<< Call(s, None, 0), Call("get_relay_state", Some(n), 0) >> :
           s \in AllOps, n \in 1..MaxRelays}
  \cup {<< Call("set_relay_off", Some(n), 0), Call("write_byte", None, c),
           Call("write_byte", None, c) >> : n \in 1..MaxRelays, c \in 1..MaxRelays}
  \cup {<< Call("set_relay_off", Some(n), 0), Call("toggle", Some(n), 0),
           Call("toggle", Some(n), 0) >> : n \in 1..MaxRelays}

EngineScripts ==
  {<< Call(s, rn, 0) >> : s \in SetOps, rn \in {None, Some(1)}}
  \cup {<< Call(s, None, 0) >> : s \in AllOps}

BusScripts ==
  {<< Call("get_relay_state", rn, 0) >> : rn \in RelayNums}
  \cup {<< Call("get_version", None, 0) >>}
  \cup {<< Call("change_i2c_address", None, a) >> : a \in AddressSamples}

WideScripts == {<< Call("set_relay_on", Some(1), 0) >>}

\* every board size and preset, on a device that obeys
BoardSession ==
  /\ \E rc \in 1..MaxRelays, v \in Presets :
       config = QwiicRelayConfig_with_verification(rc, v)
  /\ relay_states \in States0 \cup MixedStates
  /\ ignoreLeft = 0
  /\ faultsLeft = 0
  /\ clock = RealClock
  /\ todo \in BoardScripts

\* every verification policy, on devices that ignore writes (MaxRetries + 1
\* of them is more than any call of the session makes) and buses that fail
EngineSession ==
  /\ \E m \in Modes, r \in 0..MaxRetries, p \in Profiles :
       config = QwiicRelayConfig(MaxRelays,
                  [mode |-> m, max_retries |-> r, retry_delay_ms |-> p[1],
                   verification_delay_ms |-> p[2], timeout_ms |-> p[3]],
                  p[4], 10, 200)
  /\ relay_states \in States0
  /\ ignoreLeft \in 0..MaxIgnore \cup {MaxRetries + 1}
  /\ faultsLeft \in 0..MaxFaults
  /\ clock \in Clocks
  /\ todo \in EngineScripts

\* the verification policy of mode m with max_retries r and the delays and
\* timeout of profile p
Policy(m, r, p) ==
  [mode |-> m, max_retries |-> r, retry_delay_ms |-> p[1],
   verification_delay_ms |-> p[2], timeout_ms |-> p[3]]

\* two configurations that differ in the mode only (Strict, Lenient), or that
\* are both Disabled and differ in the other fields of the policy
Twins ==
  {<< QwiicRelayConfig(MaxRelays, Policy("Strict", r, p), p[4], 10, 200),
      QwiicRelayConfig(MaxRelays, Policy("Lenient", r, p), p[4], 10, 200) >> :
     r \in 0..MaxRetries, p \in Profiles}
  \cup {<< QwiicRelayConfig(MaxRelays, VerificationConfig_disabled, 10, 10, 200),
           QwiicRelayConfig(MaxRelays, Policy("Disabled", MaxRetries, p), 10, 10, 200) >> :
          p \in Profiles}

\* the same set call on two handles, opened one after the other on devices
\* that start alike
TwinSession ==
  /\ \E tw \in Twins, s \in SetOps, rn \in {None, Some(1)} :
       /\ config = tw[1]
       /\ todo = << Call(s, rn, 0), Call("new", None, tw[2]), Call(s, rn, 0) >>
  /\ relay_states \in States0
  /\ ignoreLeft \in 0..MaxIgnore \cup {MaxRetries + 1}
  /\ faultsLeft \in 0..MaxFaults
  /\ clock \in Clocks

\* every byte, both states and both booleans, converted
ConversionScripts ==
  {<< Call(c, None, b) >> : c \in {"RelayStatus_from_u8", "u8_round_trip"}, b \in 0..U8Max}
  \cup {<< Call("u8_from_RelayStatus", None, st) >> : st \in {"On", "Off"}}
  \cup {<< Call("bool_round_trip", None, b) >> : b \in BOOLEAN}

ConversionSession ==
  /\ config = QwiicRelayConfig_with_verification(MaxRelays, VerificationConfig_strict)
  /\ relay_states = [i \in 0..MaxRelays |-> FALSE]
  /\ ignoreLeft = 0
  /\ faultsLeft = 0
  /\ clock = RealClock
  /\ todo \in ConversionScripts

\* relay counts a u8 holds, the boards there are among them
RelayCounts == 0..MaxRelays \cup {U8Max}

\* delays given to QwiicRelayConfig::with_timing
TimingSamples ==
  {Timing(rc, w, sd, i) : rc \in RelayCounts, w \in {0, 20}, sd \in {0, 25}, i \in {0, 300}}

\* the caller builds a policy; or builds a configuration, opens a handle with
\* it and sets a relay
ConfigScripts ==
  {<< Call(c, None, 0) >> : c \in PolicyPresets}
  \cup {<< Call(c, None, t), Call("new", None, Constructed(c, t)), Call(s, Some(1), 0) >> :
          c \in ConfigConstructors, t \in TimingSamples, s \in SetOps}
  \cup {<< Call("QwiicRelayConfig_for_solid_state", None, Timing(rc, 0, 0, 0)),
           Call("QwiicRelayConfig_new", None, Timing(rc, 0, 0, 0)),
           Call("QwiicRelayConfig_for_mechanical", None, Timing(rc, 0, 0, 0)) >> :
          rc \in RelayCounts}

\* the builder methods of VerificationConfig, in the order of their definition
Builders ==
  << "with_mode", "with_max_retries", "with_retry_delay", "with_verification_delay",
     "with_timeout" >>

\* values handed to the builder methods, one per method
BuilderValues ==
  { [with_mode |-> "Lenient", with_max_retries |-> 10, with_retry_delay |-> 200,
     with_verification_delay |-> 30, with_timeout |-> 5000],
    [with_mode |-> "Disabled", with_max_retries |-> U8Max, with_retry_delay |-> 0,
     with_verification_delay |-> 1, with_timeout |-> 2] }

\* the calls of the builders named by order, with the values of vals
ValueFor(builder, vals) ==
  IF builder = "with_mode" THEN vals.with_mode
  ELSE IF builder = "with_max_retries" THEN vals.with_max_retries
  ELSE IF builder = "with_retry_delay" THEN vals.with_retry_delay
  ELSE IF builder = "with_verification_delay" THEN vals.with_verification_delay
  ELSE vals.with_timeout

Steps(order, vals) ==
  [j \in 1..Len(order) |-> BuilderCall(order[j], ValueFor(order[j], vals))]

\* the builders of the set B in the order of their definition
InOrder(B) == SelectSeq(Builders, LAMBDA b : b \in B)

\* every order in which the builders of the set B can be applied
Orders(B) ==
  {o \in [1..Cardinality(B) -> B] : \A j, k \in 1..Cardinality(B) : o[j] = o[k] => j = k}

\* the caller applies some builders to a preset, and then the same builders
\* with the same values in another order
BuilderScripts ==
  UNION {
    {<< Call("builder_chain", None, [base |-> base, steps |-> Steps(InOrder(B), vals)]),
        Call("builder_chain", None, [base |-> base, steps |-> Steps(o, vals)]) >> :
       base \in Presets, vals \in BuilderValues, o \in Orders(B)} :
    B \in SUBSET {Builders[j] : j \in 1..Len(Builders)} \ {{}} }

BuilderSession ==
  /\ config = QwiicRelayConfig_default
  /\ relay_states = [i \in 0..MaxRelays |-> FALSE]
  /\ ignoreLeft = 0
  /\ faultsLeft = 0
  /\ clock = RealClock
  /\ todo \in BuilderScripts

\* configurations handed to update_config
Replacements ==
  { QwiicRelayConfig(2, Policy("Lenient", 1, << 200, 30, 5000, 0 >>), 30, 25, 300),
    QwiicRelayConfig(MaxRelays, VerificationConfig_disabled, 30, 25, 300),
    QwiicRelayConfig_for_mechanical(1) }

\* the caller changes the configuration of the open handle and sets a relay
RuntimeScripts ==
  {<< Call("update_config", None, c), Call(s, rn, 0) >> :
     c \in Replacements, s \in SetOps, rn \in {None, Some(1)}}
  \cup {<< Call(m, None, d), Call(s, rn, 0) >> :
          m \in {"set_write_delay", "set_state_change_delay"}, d \in {0, 20},
          s \in SetOps, rn \in {None, Some(1)}}

RuntimeSession ==
  /\ config \in {QwiicRelayConfig_default,
                 QwiicRelayConfig_with_verification(MaxRelays, VerificationConfig_disabled)}
  /\ relay_states \in States0
  /\ ignoreLeft \in 0..1
  /\ faultsLeft = 0
  /\ clock = RealClock
  /\ todo \in RuntimeScripts

\* a verified set on a device whose relays something else switches as well
ActorSession ==
  /\ \E m \in {"Strict", "Lenient"}, r \in 0..1 :
       config = QwiicRelayConfig(MaxRelays, Policy(m, r, << 50, 20, 1000, 10 >>), 10, 10, 200)
  /\ relay_states \in States0
  /\ ignoreLeft \in 0..1
  /\ faultsLeft = 0
  /\ clock = RealClock
  /\ actorLeft \in 1..MaxActor
  /\ todo \in {<< Call(s, rn, 0) >> : s \in SetOps, rn \in {None, Some(1)}}

ConfigSession ==
  /\ config = QwiicRelayConfig_with_verification(MaxRelays, VerificationConfig_disabled)
  /\ relay_states \in States0
  /\ ignoreLeft = 0
  /\ faultsLeft = 0
  /\ clock = RealClock
  /\ todo \in ConfigScripts

\* reads and address changes on a bus that may fail
BusSession ==
  /\ \E rc \in 1..MaxRelays :
       config = QwiicRelayConfig_with_verification(rc, VerificationConfig_strict)
  /\ relay_states \in States0
  /\ ignoreLeft = 0
  /\ faultsLeft \in 0..MaxFaults
  /\ clock = RealClock
  /\ todo \in BusScripts

\* relay numbers no board has: 0, the numbers whose toggle byte is a
\* whole-board command, and the largest ones a u8 holds
EdgeNums == {0, TurnAllOff, TurnAllOn, ToggleAll, U8Max - StatusBase, U8Max - StatusBase + 1, U8Max}

EdgeScripts ==
  {<< Call(op, Some(n), 0) >> : op \in SetOps \cup {"get_relay_state"}, n \in EdgeNums}

\* calls with a relay number the board does not have
EdgeSession ==
  /\ \E v \in {VerificationConfig_strict, VerificationConfig_disabled} :
       config = QwiicRelayConfig_with_verification(MaxRelays, v)
  /\ relay_states \in MixedStates
  /\ ignoreLeft = 0
  /\ faultsLeft \in 0..1
  /\ clock = RealClock
  /\ todo \in EdgeScripts

\* auto_detect_timing on a device that obeys, or ignores the first writes it
\* gets, over a bus that may fail once; with and without verification
DetectIgnores == {0, 1, 2, 3, 4, 8}

DetectSession ==
  /\ \E v \in {VerificationConfig_disabled, Policy("Strict", 0, << 50, 20, 1000, 10 >>),
                Policy("Strict", 1, << 50, 20, 1000, 10 >>)} :
       config = QwiicRelayConfig(MaxRelays, v, 10, 10, 200)
  /\ relay_states \in States0
  /\ ignoreLeft \in DetectIgnores
  /\ faultsLeft \in 0..1
  /\ clock = RealClock
  /\ todo = << Call("auto_detect_timing", None, 0) >>

\* write delays around the largest one whose nanoseconds fit a u32
\* (u32::MAX / 1000 = 4294967), and the largest the checker's integers hold
WriteDelays == {0, 4294967, 4294968, 2147483647}

DelayScripts ==
  {<< Call("write_byte", None, c) >> : c \in {RelayState_Off, RelayState_On, TurnAllOff, TurnAllOn}}

\* writes of a handle built with_timing(4, write_delay_us, 10, 200)
DelaySession ==
  /\ \E w \in WriteDelays : config = QwiicRelayConfig_with_timing(MaxRelays, w, 10, 200)
  /\ relay_states \in MixedStates
  /\ ignoreLeft = 0
  /\ faultsLeft \in 0..1
  /\ clock = RealClock
  /\ todo \in DelayScripts

\* the largest retry count a u8 holds, on a relay that never moves
WideSession ==
  /\ config = QwiicRelayConfig(MaxRelays,
                [mode |-> "Strict", max_retries |-> U8Max, retry_delay_ms |-> 0,
                 verification_delay_ms |-> 0, timeout_ms |-> 1000],
                10, 10, 200)
  /\ relay_states = [i \in 0..MaxRelays |-> FALSE]
  /\ ignoreLeft = U8Max + 1
  /\ faultsLeft = 0
  /\ clock \in {RealClock, [gap |-> 0, bus |-> 0]}
  /\ todo \in WideScripts

Init ==
  /\ \/ /\ \/ BoardSession
           \/ EngineSession
           \/ BusSession
           \/ WideSession
           \/ TwinSession
           \/ ConversionSession
           \/ ConfigSession
           \/ BuilderSession
           \/ RuntimeSession
           \/ EdgeSession
           \/ DelaySession
           \/ DetectSession
        /\ actorLeft = 0
     \/ ActorSession
  /\ i2c_addr = QuadRelayDefault
  /\ detect = NoDetect
  /\ now = 0
  /\ log = << >>
  /\ call = NoCall
  /\ pc = "idle"
  /\ attempt = 0
  /\ start_time = 0
  /\ trace = << >>

Spec == Init /\ [][Next]_vars

(* ======================= properties of the calls ======================= *)
IsBusOp(e) == e.ev \in {"read", "write", "write_data"}
IsWrite(e) == e.ev = "write"
IsRead(e) == e.ev = "read"
IsCheck(e) == e.ev = "check"

BusOps(tr) == SelectSeq(tr, IsBusOp)
Writes(tr) == Len(SelectSeq(tr, IsWrite))
Reads(tr) == Len(SelectSeq(tr, IsRead))

Finished == 1..Len(log)

\* the traces there are: of every finished call and of the call in progress
Traces == {log[i].trace : i \in Finished} \cup {trace}

\* a finished call to set_relay_on / set_relay_off
IsSet(e) == e.call.op \in SetOps
\* ... that ran the verification loop
IsVerifiedSet(e) == IsSet(e) /\ Verifies(config.verification.mode)

\* the device obeyed every write and the bus never failed during the call
Echoing(e) == e.call.ignore0 = 0 /\ e.call.faults0 = 0

\* what get_relay_state returns for a relay in the desired state of op
Desired(op) == IF ExpectedState(op) THEN 1 ELSE 0

(* ----------------------------------------------------------------------- *)
(* C1 (as claimed): an operation given a relay number below 1 or above     *)
(* relay_count returns InvalidRelayNumber{num, relay_count} and touches    *)
(* the bus neither for a read nor for a write.                             *)
C1_InvalidRelayNumberRejected ==
  \A i \in Finished :
    LET e == log[i] IN
      ( /\ e.call.op \in SetOps \cup {"get_relay_state"}
        /\ e.call.relay_num # None
        /\ (e.call.relay_num[1] < 1 \/ e.call.relay_num[1] > config.relay_count) )
      => /\ e.result.kind = "InvalidRelayNumber"
         /\ BusOps(e.trace) = << >>

(* ----------------------------------------------------------------------- *)
\* the caller made set(num, desired) and then get(num), num a relay of the board
SetThenGet ==
  /\ Len(log) = 2
  /\ IsSet(log[1])
  /\ log[2].call.op = "get_relay_state"
  /\ log[1].call.relay_num = log[2].call.relay_num
  /\ log[1].call.relay_num # None
  /\ log[1].call.relay_num[1] \in 1..config.relay_count
  /\ Echoing(log[1])

(* C2: on an echoing device, for every relay_count in 1..4, every relay    *)
(* num of the board, every initial state and every verification mode (the  *)
(* strict, lenient and disabled policies), set(num, On) succeeds and the   *)
(* following get(num) returns On; set(num, Off) succeeds and the following *)
(* get(num) returns Off.                                                   *)
C2_SetThenGetReturnsDesired ==
  SetThenGet =>
    /\ log[1].result = Ok
    /\ log[2].result = OkValue(Desired(log[1].call.op))

\* a verified set(num, On) has switched a relay that was off, and get sees it on
C2_Witness ==
  /\ SetThenGet
  /\ config.verification.mode = "Strict"
  /\ log[1].call.op = "set_relay_on"
  /\ ~log[1].call.states0[log[1].call.relay_num[1]]
  /\ log[1].result.kind = "Ok"
  /\ log[2].result = OkValue(1)

(* ----------------------------------------------------------------------- *)
\* in trace tr of a set with relay number num, every toggle write directly
\* follows a successful read of that relay's register, in the same attempt,
\* that showed the state the call does not want
WritesOnlyAfterDifferingRead(tr, op, num) ==
  \A j \in 1..Len(tr) :
    IsWrite(tr[j]) =>
      /\ j > 1
      /\ IsRead(tr[j - 1])
      /\ tr[j - 1].ok
      /\ tr[j - 1].att = tr[j].att
      /\ \E r \in StatusRegister(Some(num)) : ~r.panic /\ tr[j - 1].a = r.val
      /\ BoolFromRelayStatus(RelayStatusFromU8(tr[j - 1].b)) # ExpectedState(op)

\* the caller made the same set(num, desired) twice, num a relay of the board,
\* on an echoing device
SetTwice ==
  /\ Len(log) = 2
  /\ IsSet(log[1])
  /\ log[2].call = [log[1].call EXCEPT !.states0 = log[2].call.states0]
  /\ log[1].call.relay_num # None
  /\ log[1].call.relay_num[1] \in 1..config.relay_count
  /\ Echoing(log[1])

(* C3: with an explicit relay number, set writes a toggle only when the    *)
(* state it has just read differs from the desired one (Disabled mode and  *)
(* every attempt of the verified modes); so on an echoing device two       *)
(* consecutive equal set calls write at most one toggle in total and the   *)
(* second leaves the relays as the first left them.                        *)
C3_ToggleOnlyWhenStateDiffers ==
  /\ \A i \in Finished :
       (IsSet(log[i]) /\ log[i].call.relay_num # None)
         => WritesOnlyAfterDifferingRead(log[i].trace, log[i].call.op, log[i].call.relay_num[1])
  /\ (pc # "idle" /\ call.relay_num # None)
       => WritesOnlyAfterDifferingRead(trace, call.op, call.relay_num[1])
  /\ SetTwice =>
       /\ Writes(log[1].trace) + Writes(log[2].trace) <= 1
       /\ relay_states = log[2].call.states0

\* two set(num, On) calls were made, the first wrote the toggle, the second none
C3_Witness ==
  /\ SetTwice
  /\ log[1].call.op = "set_relay_on"
  /\ Writes(log[1].trace) = 1
  /\ Reads(log[2].trace) >= 1
  /\ Writes(log[2].trace) = 0
  /\ relay_states[log[1].call.relay_num[1]]

(* ----------------------------------------------------------------------- *)
(* C4: with verification.mode = Disabled a set call does at most one read  *)
(* of the current state followed by at most one write; nothing is read     *)
(* after the write.                                                        *)
C4_DisabledNeverReadsBack ==
  \A i \in Finished :
    (IsSet(log[i]) /\ config.verification.mode = "Disabled") =>
      LET b == BusOps(log[i].trace) IN
        /\ Reads(b) <= 1
        /\ Writes(b) <= 1
        /\ \A j \in 1..Len(b) : IsRead(b[j]) => j = 1
        /\ \A j \in 1..Len(log[i].trace) : log[i].trace[j].what # "readback"

\* a Disabled-mode set has read the state and written the toggle
C4_Witness ==
  \E i \in Finished :
    /\ IsSet(log[i])
    /\ config.verification.mode = "Disabled"
    /\ log[i].result.kind = "Ok"
    /\ Reads(log[i].trace) = 1
    /\ Writes(log[i].trace) = 1

(* ----------------------------------------------------------------------- *)
Last(tr) == tr[Len(tr)]

\* every read-back of the trace succeeded and showed the state not wanted
EveryReadBackOpposite(tr, op) ==
  \A j \in 1..Len(tr) :
    tr[j].what = "readback" =>
      /\ tr[j].ok
      /\ BoolFromRelayStatus(RelayStatusFromU8(tr[j].b)) # ExpectedState(op)

\* a verified set whose read-backs all showed the opposite state, on a bus
\* that did not fail, and that did not run out of time
Exhausted(e) ==
  /\ IsVerifiedSet(e)
  /\ e.call.faults0 = 0
  /\ e.result.kind # "Timeout"
  /\ EveryReadBackOpposite(e.trace, e.call.op)

(* C5 (as claimed): when every read-back shows the opposite of the         *)
(* commanded state and the timeout never elapses, verified set returns     *)
(* StateVerificationFailed with attempts = max_retries + 1, for every      *)
(* max_retries a u8 holds.                                                 *)
C5_AttemptsIsMaxRetriesPlusOne ==
  \A i \in Finished :
    Exhausted(log[i]) =>
      /\ log[i].result.kind = "StateVerificationFailed"
      /\ log[i].result.attempts = config.verification.max_retries + 1

(* ----------------------------------------------------------------------- *)
ZeroTimeout(e) == IsVerifiedSet(e) /\ config.verification.timeout_ms = 0

(* C6 (as claimed): with timeout = 0 and max_retries > 0 verified set      *)
(* fails its first elapsed-time check and returns Timeout; it never        *)
(* returns StateVerificationFailed.                                        *)
C6_ZeroTimeoutFailsFirstCheck ==
  \A i \in Finished :
    (ZeroTimeout(log[i]) /\ config.verification.max_retries > 0) =>
      /\ log[i].result.kind = "Timeout"
      /\ Len(log[i].trace) = 1

(* C6 (amended): with timeout = 0 verified set returns Timeout from the    *)
(* first elapsed-time check that measures more than zero, and from no      *)
(* other place: if the first check measures a positive time the call       *)
(* returns Timeout before any bus access, and while the checks measure     *)
(* exactly zero (the test is elapsed > timeout) the attempts run, so the   *)
(* call can also end as any other verified set does.                       *)
C6_ZeroTimeoutFailsFirstPositiveCheck ==
  \A i \in Finished :
    ZeroTimeout(log[i]) =>
      LET tr == log[i].trace IN
        /\ IsCheck(tr[1])
        /\ tr[1].a > 0 => (Len(tr) = 1 /\ log[i].result.kind = "Timeout")
        /\ \A j \in 1..Len(tr) :
             (IsCheck(tr[j]) /\ tr[j].a > 0)
               => (j = Len(tr) /\ log[i].result.kind = "Timeout")
        /\ log[i].result.kind = "Timeout" => (IsCheck(Last(tr)) /\ Last(tr).a > 0)

\* timeout = 0, retries allowed, and the first check has returned Timeout
C6_Witness ==
  \E i \in Finished :
    /\ ZeroTimeout(log[i])
    /\ config.verification.max_retries > 0
    /\ log[i].result.kind = "Timeout"
    /\ Len(log[i].trace) = 1

(* ----------------------------------------------------------------------- *)
\* the elapsed-time checks of a trace are exactly the first entries of its
\* attempts, so each precedes every bus access of its attempt
ChecksOpenAttempts(tr) ==
  \A j \in 1..Len(tr) :
    IsCheck(tr[j]) <=> (j = 1 \/ tr[j - 1].att # tr[j].att)

(* C7: in verified set the elapsed-time check is the first step of every   *)
(* attempt; a check that finds elapsed > timeout returns Timeout at once,  *)
(* whatever retries remain, and Timeout comes from nowhere else; retry     *)
(* exhaustion (StateVerificationFailed) is decided only after a            *)
(* mismatching read-back, in the last attempt.                             *)
C7_TimeoutCheckedFirst ==
  /\ (pc # "idle" /\ Verifies(config.verification.mode)) => ChecksOpenAttempts(trace)
  /\ \A i \in Finished :
       IsVerifiedSet(log[i]) =>
         LET tr == log[i].trace
             r == log[i].result
         IN /\ ChecksOpenAttempts(tr)
            /\ \A j \in 1..Len(tr) :
                 (IsCheck(tr[j]) /\ tr[j].a > Ms(config.verification.timeout_ms))
                   => (j = Len(tr) /\ r.kind = "Timeout")
            /\ r.kind = "Timeout" =>
                 (IsCheck(Last(tr)) /\ Last(tr).a > Ms(config.verification.timeout_ms))
            /\ r.kind = "StateVerificationFailed" =>
                 /\ Last(tr).what = "readback"
                 /\ Last(tr).ok
                 /\ BoolFromRelayStatus(RelayStatusFromU8(Last(tr).b)) # ExpectedState(log[i].call.op)
                 /\ Last(tr).att = config.verification.max_retries

\* Timeout came from the check of a later attempt while a retry remained
C7_Witness ==
  \E i \in Finished :
    /\ IsVerifiedSet(log[i])
    /\ log[i].result.kind = "Timeout"
    /\ Last(log[i].trace).att >= 1
    /\ Last(log[i].trace).att < config.verification.max_retries

(* ----------------------------------------------------------------------- *)
\* a bus call of the trace that ended in a transport error
Failed(tr, j) == IsBusOp(tr[j]) /\ ~tr[j].ok

\* entry j of the trace is followed by the sleep of retry_delay and then by
\* the check of the next attempt
Retried(tr, j) ==
  /\ j + 2 <= Len(tr)
  /\ tr[j + 1].ev = "sleep"
  /\ tr[j + 1].what = "retry_delay"
  /\ tr[j + 1].a = Ms(config.verification.retry_delay_ms)
  /\ IsCheck(tr[j + 2])
  /\ tr[j + 2].att = tr[j].att + 1

(* C8 (as claimed): in verified set a transport error of any bus call of   *)
(* an attempt (the current-state read, the toggle write, the read-back) is *)
(* propagated only in the last permitted attempt; in any earlier attempt   *)
(* the engine sleeps retry_delay and retries.                              *)
C8_TransportErrorRetriedUntilLastAttempt ==
  \A i \in Finished :
    IsVerifiedSet(log[i]) =>
      LET tr == log[i].trace IN
        \A j \in 1..Len(tr) :
          Failed(tr, j) =>
            IF tr[j].att = config.verification.max_retries
              THEN j = Len(tr) /\ log[i].result.kind = "I2C"
              ELSE Retried(tr, j)

(* C8 (amended): in verified set a transport error of the read-back is     *)
(* propagated only in the last permitted attempt, and in any earlier       *)
(* attempt the engine sleeps retry_delay and retries the whole attempt; a  *)
(* transport error of the current-state read or of the toggle write is     *)
(* propagated at once, in whichever attempt it occurs.                     *)
C8_OnlyReadBackErrorRetried ==
  \A i \in Finished :
    IsVerifiedSet(log[i]) =>
      LET tr == log[i].trace IN
        /\ \A j \in 1..Len(tr) :
             Failed(tr, j) =>
               IF tr[j].what = "readback" /\ tr[j].att # config.verification.max_retries
                 THEN Retried(tr, j)
                 ELSE j = Len(tr) /\ log[i].result.kind = "I2C"
        /\ log[i].result.kind = "I2C" => Failed(tr, Len(tr))

\* a read-back failed before the last attempt, was retried, and the call
\* then succeeded
C8_Witness ==
  \E i \in Finished :
    /\ IsVerifiedSet(log[i])
    /\ log[i].result.kind = "Ok"
    /\ \E j \in 1..Len(log[i].trace) :
         /\ Failed(log[i].trace, j)
         /\ log[i].trace[j].what = "readback"
         /\ log[i].trace[j].att < config.verification.max_retries

(* ----------------------------------------------------------------------- *)
\* verified set(num, On) of a relay that is off, on a device that ignores
\* the first k toggle writes, with no bus failure and no timeout
IgnoresFirst(e, k) ==
  /\ IsVerifiedSet(e)
  /\ e.call.op = "set_relay_on"
  /\ e.call.relay_num # None
  /\ e.call.relay_num[1] \in 1..MaxRelays
  /\ ~e.call.states0[e.call.relay_num[1]]
  /\ e.call.faults0 = 0
  /\ e.call.ignore0 = k
  /\ e.result.kind # "Timeout"

(* C9 (as claimed): on a device that ignores the first k toggle writes,    *)
(* verified set(num, On) from Off, with a timeout that does not elapse,    *)
(* returns Ok after exactly k + 1 toggle writes when k <= max_retries and  *)
(* returns StateVerificationFailed when k > max_retries.                   *)
C9_SucceedsAfterIgnoredWrites ==
  \A i \in Finished :
    IgnoresFirst(log[i], log[i].call.ignore0) =>
      IF log[i].call.ignore0 <= config.verification.max_retries
        THEN /\ log[i].result.kind = "Ok"
             /\ Writes(log[i].trace) = log[i].call.ignore0 + 1
        ELSE log[i].result.kind = "StateVerificationFailed"

(* ----------------------------------------------------------------------- *)
(* C10 (as claimed): change_address rejects every address in 0x00..0x07    *)
(* and every address from 0x78 up before any bus transmission, and for     *)
(* every address in 0x08..0x77 transmits 0xC7 followed by the address and  *)
(* returns success.                                                        *)
C10_AddressRange ==
  \A i \in Finished :
    log[i].call.op = "change_i2c_address" =>
      LET a == log[i].call.arg
          b == BusOps(log[i].trace)
      IN IF a >= 8 /\ a <= 119
           THEN log[i].call.faults0 = 0 =>
                  /\ log[i].result.kind = "Ok"
                  /\ Len(b) = 1
                  /\ b[1].ev = "write_data"
                  /\ b[1].a = 199
                  /\ b[1].b = a
           ELSE /\ log[i].result.kind \notin {"Ok", "I2C"}
                /\ b = << >>

(* ----------------------------------------------------------------------- *)
\* a finished change_i2c_address call that the range check turned down
AddressRejected(e) ==
  /\ e.call.op = "change_i2c_address"
  /\ ~ValidAddress(e.call.arg)

(* C11 (as claimed): when change_address rejects an address (0x05, 0x79)   *)
(* the error is InvalidI2CAddress carrying the rejected value, and the     *)
(* transport is not invoked.                                               *)
C11_RejectedWithInvalidI2CAddress ==
  \A i \in Finished :
    AddressRejected(log[i]) =>
      /\ log[i].result.kind = "InvalidI2CAddress"
      /\ log[i].result.num = log[i].call.arg
      /\ BusOps(log[i].trace) = << >>

(* C11 (amended): when change_address rejects an address (0x05 and 0x79    *)
(* are rejected) the error is InvalidConfiguration, whose message names    *)
(* the rejected value, and the transport is not invoked.                   *)
C11_RejectedWithInvalidConfiguration ==
  \A i \in Finished :
    log[i].call.op = "change_i2c_address" =>
      /\ log[i].call.arg \in {5, 121} => AddressRejected(log[i])
      /\ AddressRejected(log[i]) =>
           /\ log[i].result.kind = "InvalidConfiguration"
           /\ log[i].result.num = log[i].call.arg
           /\ log[i].trace = << >>
           /\ faultsLeft = log[i].call.faults0

\* change_i2c_address(0x79) has been turned down
C11_Witness ==
  \E i \in Finished :
    /\ AddressRejected(log[i])
    /\ log[i].call.arg = 121
    /\ log[i].result.kind = "InvalidConfiguration"

(* ----------------------------------------------------------------------- *)
\* a finished set_all_relays_on / set_all_relays_off call
IsSetAll(e) == e.call.op \in AllOps

\* relay i is in the state set_all_relays_on / off asks for
AllDesired(op, i) == relay_states[i] = (op = "set_all_relays_on")

\* the trace holds a read of the status register of relay i
ReadsRelay(tr, i) ==
  \E j \in 1..Len(tr) : IsRead(tr[j]) /\ tr[j].a = StatusBase + i

(* C12 (as claimed): set_all(desired) writes the whole-board command       *)
(* exactly once; with verification enabled it then reads back every relay  *)
(* 1..relay_count and returns an error if some relay is not in the desired *)
(* state; with verification Disabled it reads nothing.                     *)
C12_SetAllVerifiesEveryRelay ==
  \A i \in Finished :
    (IsSetAll(log[i]) /\ log[i].call.faults0 = 0) =>
      /\ Writes(log[i].trace) = 1
      /\ IF Verifies(log[i].call.config.verification.mode)
           THEN /\ \A n \in 1..log[i].call.config.relay_count : ReadsRelay(log[i].trace, n)
                /\ (i = Len(log) /\ log[i].result.kind = "Ok")
                     => \A n \in 1..log[i].call.config.relay_count : AllDesired(log[i].call.op, n)
           ELSE Reads(log[i].trace) = 0

(* C12 (amended): set_all(desired) writes the whole-board all-on / all-off *)
(* command exactly once and, in every verification mode, reads nothing and *)
(* verifies nothing: it returns Ok as soon as the write has gone through,  *)
(* whether or not the relays follow, and the transport error of the write  *)
(* otherwise.                                                              *)
C12_SetAllWritesOnceAndNeverReads ==
  \A i \in Finished :
    IsSetAll(log[i]) =>
      LET b == BusOps(log[i].trace) IN
        /\ Len(b) = 1
        /\ b[1].ev = "write"
        /\ b[1].a = (IF log[i].call.op = "set_all_relays_on" THEN 11 ELSE 10)
        /\ log[i].result = (IF b[1].ok THEN Ok ELSE I2CError)

\* with verification enabled, set_all_relays_on returned Ok on a device that
\* ignored the command: relay 1 is still off
C12_Witness ==
  \E i \in Finished :
    /\ IsSetAll(log[i])
    /\ i = Len(log)
    /\ log[i].call.op = "set_all_relays_on"
    /\ Verifies(log[i].call.config.verification.mode)
    /\ log[i].call.ignore0 > 0
    /\ log[i].result = Ok
    /\ ~relay_states[1]

(* ----------------------------------------------------------------------- *)
\* the caller made set_all(desired), which returned Ok on a device that obeys,
\* and then get(n) for a relay n of the board
SetAllThenGet ==
  /\ Len(log) = 2
  /\ IsSetAll(log[1])
  /\ Echoing(log[1])
  /\ log[1].result = Ok
  /\ log[2].call.op = "get_relay_state"
  /\ log[2].call.relay_num # None
  /\ log[2].call.relay_num[1] \in 1..config.relay_count

(* C13: on a device that obeys the whole-board commands, after set_all(On) *)
(* has returned Ok get(i) returns On for every relay i in 1..relay_count,  *)
(* and after set_all(Off) get(i) returns Off, whatever the relay states    *)
(* were before the call.                                                   *)
C13_SetAllThenGetReturnsDesired ==
  SetAllThenGet =>
    /\ log[2].result = OkValue(IF log[1].call.op = "set_all_relays_on" THEN 1 ELSE 0)
    /\ \A n \in 1..config.relay_count : AllDesired(log[1].call.op, n)

\* set_all_relays_on on a board with relays on and off, then get of a relay
\* that was off returned On
C13_Witness ==
  /\ SetAllThenGet
  /\ log[1].call.op = "set_all_relays_on"
  /\ \E n \in 1..config.relay_count : log[1].call.states0[n]
  /\ ~log[1].call.states0[log[2].call.relay_num[1]]
  /\ log[2].result = OkValue(1)

ToggledAfterOff(k) ==
  /\ Len(log) = 1 + k
  /\ log[1].call.op = "set_relay_off"
  /\ log[1].call.relay_num # None
  /\ log[1].call.relay_num[1] \in 1..MaxRelays
  /\ Echoing(log[1])
  /\ log[1].result = Ok
  /\ \A j \in 2..(1 + k) :
       /\ log[j].call.op = "write_byte"
       /\ log[j].call.arg = DualQuadToggleBase + log[1].call.relay_num[1]
       /\ log[j].result = Ok

TwinRuns ==
  /\ Len(log) = 3
  /\ IsSet(log[1])
  /\ log[2].call.op = "new"
  /\ log[3].call = [log[1].call EXCEPT !.config = log[3].call.config]

\* the two configurations agree on everything but the verification mode
SamePolicyButMode(c1, c2) ==
  c2 = [c1 EXCEPT !.verification.mode = c2.verification.mode]

\* the two configurations agree on everything but the verification policy
SameButPolicy(c1, c2) ==
  c2 = [c1 EXCEPT !.verification = c2.verification]

Min(a, b) == IF a <= b THEN a ELSE b

\* two bus calls that are the same call, answered differently by the bus
SameCallOtherAnswer(x, y) ==
  /\ IsBusOp(x)
  /\ x.ok # y.ok
  /\ y = [x EXCEPT !.ok = y.ok, !.b = y.b]

\* the two calls did the same steps and returned the same result, up to the
\* first bus call that the bus answered differently
SameBehaviour(e1, e2) ==
  IF e1.trace = e2.trace
    THEN e1.result = e2.result
    ELSE \E j \in 1..Min(Len(e1.trace), Len(e2.trace)) :
           /\ SubSeq(e1.trace, 1, j - 1) = SubSeq(e2.trace, 1, j - 1)
           /\ SameCallOtherAnswer(e1.trace[j], e2.trace[j])

(* C15: for every device behaviour and equal max_retries, delays and       *)
(* timeout, verified set in Lenient mode does the same sequence of bus     *)
(* operations and returns the same result as in Strict mode; Lenient never *)
(* turns a final mismatch into success.                                    *)
C15_LenientBehavesAsStrict ==
  /\ ( /\ TwinRuns
       /\ log[1].call.config.verification.mode = "Strict"
       /\ log[3].call.config.verification.mode = "Lenient"
       /\ SamePolicyButMode(log[1].call.config, log[3].call.config) )
     => SameBehaviour(log[1], log[3])
  /\ \A i \in Finished :
       ( /\ IsSet(log[i])
         /\ log[i].call.config.verification.mode = "Lenient"
         /\ log[i].result = Ok )
       => /\ Last(log[i].trace).what = "readback"
          /\ Last(log[i].trace).ok
          /\ BoolFromRelayStatus(RelayStatusFromU8(Last(log[i].trace).b))
               = ExpectedState(log[i].call.op)

\* a Strict and a Lenient call both ran out of retries on a relay that did
\* not move, and returned the same StateVerificationFailed
C15_Witness ==
  /\ TwinRuns
  /\ log[1].call.config.verification.mode = "Strict"
  /\ log[3].call.config.verification.mode = "Lenient"
  /\ log[1].call.config.verification.max_retries > 0
  /\ log[1].result.kind = "StateVerificationFailed"
  /\ log[3].result = log[1].result
  /\ log[3].trace = log[1].trace

(* ----------------------------------------------------------------------- *)
(* C18: with mode = Disabled the fields max_retries, retry_delay,          *)
(* verification_delay and timeout are inert: two Disabled configurations   *)
(* that differ only in those fields do the same bus operations and return  *)
(* the same result for every set call and every device behaviour.          *)
C18_DisabledFieldsAreInert ==
  ( /\ TwinRuns
    /\ log[1].call.config.verification.mode = "Disabled"
    /\ log[3].call.config.verification.mode = "Disabled"
    /\ SameButPolicy(log[1].call.config, log[3].call.config) )
  => SameBehaviour(log[1], log[3])

\* two Disabled handles whose policies differ in every other field both
\* switched the relay with one read and one write
C18_Witness ==
  /\ TwinRuns
  /\ log[1].call.config.verification.mode = "Disabled"
  /\ log[3].call.config.verification.mode = "Disabled"
  /\ log[1].call.config.verification.max_retries # log[3].call.config.verification.max_retries
  /\ log[1].call.config.verification.retry_delay_ms # log[3].call.config.verification.retry_delay_ms
  /\ log[1].call.config.verification.verification_delay_ms
       # log[3].call.config.verification.verification_delay_ms
  /\ log[1].call.config.verification.timeout_ms # log[3].call.config.verification.timeout_ms
  /\ Writes(log[1].trace) = 1
  /\ log[3].trace = log[1].trace
  /\ log[3].result = Ok

(* ----------------------------------------------------------------------- *)
(* C16 (as claimed): whatever the device answers (any read values, any     *)
(* transport failures), verified set ends by returning Ok,                 *)
(* StateVerificationFailed, Timeout or the transport error: it never       *)
(* panics.                                                                 *)
C16_VerifiedSetNeverPanics ==
  \A i \in Finished :
    IsVerifiedSet(log[i]) =>
      log[i].result.kind \in {"Ok", "StateVerificationFailed", "Timeout", "I2C"}

(* ----------------------------------------------------------------------- *)
(* C17 (as claimed): get without a relay number reads the single-board     *)
(* status register 0x05, which is not the firmware-version register 0x04   *)
(* that get_version reads.                                                 *)
C17_UnitStatusRegister ==
  \A i \in Finished :
    (log[i].call.op = "get_relay_state" /\ log[i].call.relay_num = None) =>
      /\ Len(log[i].trace) = 1
      /\ IsRead(log[i].trace[1])
      /\ log[i].trace[1].a = SingleStatusVersion
      /\ log[i].trace[1].a # SingleFirmwareVersion

(* ----------------------------------------------------------------------- *)
\* the time entries lo..hi of a trace spend in their sleeps (us)
RECURSIVE SleepBetween(_, _, _)
SleepBetween(tr, lo, hi) ==
  IF lo > hi THEN 0
  ELSE IF lo = hi THEN (IF tr[lo].ev = "sleep" THEN tr[lo].a ELSE 0)
  ELSE SleepBetween(tr, lo, (lo + hi) \div 2) + SleepBetween(tr, (lo + hi) \div 2 + 1, hi)

\* the time a trace spends in its sleeps (us)
SleepTotal(tr) == SleepBetween(tr, 1, Len(tr))

(* C19 (as claimed): when bus calls take no time, the time one verified    *)
(* set call spends in its sleeps never exceeds (write_delay +              *)
(* state_change_delay + verification_delay) * (max_retries + 1) + timeout. *)
C19_LatencyBound ==
  \A i \in Finished :
    (IsVerifiedSet(log[i]) /\ clock.bus = 0) =>
      LET c == log[i].call.config IN
        SleepTotal(log[i].trace)
          <= (c.write_delay_us + Ms(c.state_change_delay_ms)
                + Ms(c.verification.verification_delay_ms))
               * (c.verification.max_retries + 1)
             + Ms(c.verification.timeout_ms)

(* C19 (amended): the time one verified set call spends in its sleeps      *)
(* never exceeds (write_delay + verification_delay) * (max_retries + 1) +  *)
(* retry_delay * max_retries, and never exceeds timeout + write_delay +    *)
(* verification_delay + retry_delay; state_change_delay is never slept.    *)
C19_LatencyBoundWithRetryDelay ==
  \A i \in Finished :
    IsVerifiedSet(log[i]) =>
      LET c == log[i].call.config
          wd == c.write_delay_us
          vd == Ms(c.verification.verification_delay_ms)
          rd == Ms(c.verification.retry_delay_ms)
          total == SleepTotal(log[i].trace)
      IN /\ total <= (wd + vd) * (c.verification.max_retries + 1)
                        + rd * c.verification.max_retries
         /\ total <= Ms(c.verification.timeout_ms) + wd + vd + rd
         /\ \A j \in 1..Len(log[i].trace) :
              log[i].trace[j].ev = "sleep"
                => log[i].trace[j].what \in {"write_delay", "verification_delay", "retry_delay"}

\* with bus calls that take no time, a verified set slept longer than the
\* claimed bound: its retry_delay is longer than what the bound allows
C19_Witness ==
  \E i \in Finished :
    /\ IsVerifiedSet(log[i])
    /\ clock.bus = 0
    /\ log[i].call.config.verification.max_retries > 0
    /\ SleepTotal(log[i].trace)
         > (log[i].call.config.write_delay_us + Ms(log[i].call.config.state_change_delay_ms)
              + Ms(log[i].call.config.verification.verification_delay_ms))
             * (log[i].call.config.verification.max_retries + 1)
           + Ms(log[i].call.config.verification.timeout_ms)

(* ----------------------------------------------------------------------- *)
(* C20: every nonzero byte converts to On and 0 to Off; On converts to the *)
(* byte 1 and Off to 0; bool -> RelayStatus -> bool is the identity; byte  *)
(* -> RelayStatus -> byte is the identity exactly for the bytes 0 and 1    *)
(* and gives 1 for every other nonzero byte.                               *)
C20_RelayStatusConversions ==
  \A i \in Finished :
    LET op == log[i].call.op
        arg == log[i].call.arg
        v == log[i].result.value
    IN /\ op = "RelayStatus_from_u8" => v = (IF arg = 0 THEN "Off" ELSE "On")
       /\ op = "u8_from_RelayStatus" => v = (IF arg = "On" THEN 1 ELSE 0)
       /\ op = "bool_round_trip" => v = arg
       /\ op = "u8_round_trip" =>
            /\ (v = arg) <=> (arg \in {0, 1})
            /\ arg # 0 => v = 1

\* the byte 255 went to RelayStatus and back and came out as 1
C20_Witness ==
  \E i \in Finished :
    /\ log[i].call.op = "u8_round_trip"
    /\ log[i].call.arg = U8Max
    /\ log[i].result.value = 1

(* ----------------------------------------------------------------------- *)
\* the caller built a configuration with a constructor that takes no
\* verification policy, opened a handle with it and made a set call
BuiltThenSet ==
  /\ Len(log) = 3
  /\ log[1].call.op \in ConfigConstructors
  /\ log[2].call.op = "new"
  /\ log[2].call.arg = log[1].result.value
  /\ IsSet(log[3])

\* the trace holds a read-back
ReadsBack(tr) == \E j \in 1..Len(tr) : tr[j].what = "readback"

(* C21: strict() and default() are (Strict, max_retries 3, retry_delay 50  *)
(* ms, verification_delay 20 ms, timeout 1000 ms); lenient() is (Lenient,  *)
(* 5, 100 ms, 50 ms, 2000 ms); disabled() is (Disabled, 0, 0, 0, 0); a     *)
(* configuration built without an explicit verification policy carries the *)
(* strict preset, and the set operations of a handle opened with it run    *)
(* the verification loop.                                                  *)
C21_VerificationPresets ==
  /\ \A i \in Finished :
       LET op == log[i].call.op IN
         /\ op \in {"VerificationConfig_default", "VerificationConfig_strict"} =>
              log[i].result.value =
                [mode |-> "Strict", max_retries |-> 3, retry_delay_ms |-> 50,
                 verification_delay_ms |-> 20, timeout_ms |-> 1000]
         /\ op = "VerificationConfig_lenient" =>
              log[i].result.value =
                [mode |-> "Lenient", max_retries |-> 5, retry_delay_ms |-> 100,
                 verification_delay_ms |-> 50, timeout_ms |-> 2000]
         /\ op = "VerificationConfig_disabled" =>
              log[i].result.value =
                [mode |-> "Disabled", max_retries |-> 0, retry_delay_ms |-> 0,
                 verification_delay_ms |-> 0, timeout_ms |-> 0]
         /\ op \in ConfigConstructors =>
              log[i].result.value.verification =
                [mode |-> "Strict", max_retries |-> 3, retry_delay_ms |-> 50,
                 verification_delay_ms |-> 20, timeout_ms |-> 1000]
  /\ BuiltThenSet =>
       /\ IsCheck(log[3].trace[1])
       /\ log[3].result = Ok
       /\ Last(log[3].trace).what = "readback"

\* a handle opened with for_mechanical(4) switched relay 1 on and read it back
C21_Witness ==
  /\ BuiltThenSet
  /\ log[1].call.op = "QwiicRelayConfig_for_mechanical"
  /\ log[3].call.op = "set_relay_on"
  /\ Writes(log[3].trace) = 1
  /\ ReadsBack(log[3].trace)
  /\ log[3].result = Ok

(* ----------------------------------------------------------------------- *)
\* the caller built the solid-state, the standard and the mechanical preset
\* for the same relay count
ThreePresets ==
  /\ Len(log) = 3
  /\ log[1].call.op = "QwiicRelayConfig_for_solid_state"
  /\ log[2].call.op = "QwiicRelayConfig_new"
  /\ log[3].call.op = "QwiicRelayConfig_for_mechanical"

\* the timing fields of a configuration
TimingOf(c) == << c.write_delay_us, c.state_change_delay_ms, c.init_delay_ms >>

(* C22: for every relay count the standard configuration (new, default)    *)
(* has write delay 10 us, state-change delay 10 ms, init delay 200 ms; the *)
(* solid-state one 5 us, 5 ms, 100 ms; the mechanical one 15 us, 20 ms,    *)
(* 250 ms; with_timing stores exactly the values supplied; relay_count is  *)
(* stored unchanged; so the write delays order solid-state < standard <    *)
(* mechanical.                                                             *)
C22_TimingPresets ==
  /\ \A i \in Finished :
       LET op == log[i].call.op
           arg == log[i].call.arg
           v == log[i].result.value
       IN /\ op = "QwiicRelayConfig_new" =>
               (TimingOf(v) = << 10, 10, 200 >> /\ v.relay_count = arg.relay_count)
          /\ op = "QwiicRelayConfig_default" =>
               (TimingOf(v) = << 10, 10, 200 >> /\ v.relay_count = 4)
          /\ op = "QwiicRelayConfig_for_solid_state" =>
               (TimingOf(v) = << 5, 5, 100 >> /\ v.relay_count = arg.relay_count)
          /\ op = "QwiicRelayConfig_for_mechanical" =>
               (TimingOf(v) = << 15, 20, 250 >> /\ v.relay_count = arg.relay_count)
          /\ op = "QwiicRelayConfig_with_timing" =>
               /\ TimingOf(v) = << arg.write_delay_us, arg.state_change_delay_ms, arg.init_delay_ms >>
               /\ v.relay_count = arg.relay_count
  /\ ThreePresets =>
       /\ log[1].result.value.write_delay_us < log[2].result.value.write_delay_us
       /\ log[2].result.value.write_delay_us < log[3].result.value.write_delay_us

\* the three presets were built for 255 relays: 5 us, then 10 us, then 15 us
C22_Witness ==
  /\ ThreePresets
  /\ log[1].result.value.relay_count = U8Max
  /\ log[3].result.value.relay_count = U8Max
  /\ log[1].result.value.write_delay_us = 5
  /\ log[3].result.value.write_delay_us = 15

(* ----------------------------------------------------------------------- *)
\* the field of the policy a builder method is named after
FieldOf(builder) ==
  IF builder = "with_mode" THEN "mode"
  ELSE IF builder = "with_max_retries" THEN "max_retries"
  ELSE IF builder = "with_retry_delay" THEN "retry_delay_ms"
  ELSE IF builder = "with_verification_delay" THEN "verification_delay_ms"
  ELSE "timeout_ms"

\* a finished application of builder methods to a policy
IsChain(e) == e.call.op = "builder_chain"

\* the steps of two chains are the same calls, in some order
SameSteps(s1, s2) ==
  /\ Len(s1) = Len(s2)
  /\ {s1[j] : j \in 1..Len(s1)} = {s2[j] : j \in 1..Len(s2)}

(* C23: with_mode, with_max_retries, with_retry_delay,                     *)
(* with_verification_delay and with_timeout each return the policy with    *)
(* their own field set to the supplied value and every other field as it   *)
(* was; several of them applied to the same policy give the same policy in *)
(* whatever order they are applied.                                        *)
C23_BuildersSetOnlyTheirField ==
  /\ \A i \in Finished :
       (IsChain(log[i]) /\ Len(log[i].call.arg.steps) = 1) =>
         LET base == log[i].call.arg.base
             step == log[i].call.arg.steps[1]
             v == log[i].result.value
         IN /\ DOMAIN v = DOMAIN base
            /\ v[FieldOf(step.builder)] = Supplied(step)
            /\ \A f \in DOMAIN base \ {FieldOf(step.builder)} : v[f] = base[f]
  /\ ( /\ Len(log) = 2
       /\ IsChain(log[1])
       /\ IsChain(log[2])
       /\ log[1].call.arg.base = log[2].call.arg.base
       /\ SameSteps(log[1].call.arg.steps, log[2].call.arg.steps) )
     => /\ log[1].result.value = log[2].result.value
        /\ \A j \in 1..Len(log[1].call.arg.steps) :
             log[1].result.value[FieldOf(log[1].call.arg.steps[j].builder)]
               = Supplied(log[1].call.arg.steps[j])

\* the five builders were applied to disabled() in the order of their
\* definition and in the reverse order, and gave the same policy
C23_Witness ==
  /\ Len(log) = 2
  /\ IsChain(log[1])
  /\ IsChain(log[2])
  /\ log[1].call.arg.base = VerificationConfig_disabled
  /\ Len(log[1].call.arg.steps) = 5
  /\ \A j \in 1..5 : log[2].call.arg.steps[j] = log[1].call.arg.steps[6 - j]
  /\ log[1].result.value = log[2].result.value
  /\ log[1].result.value.timeout_ms = 5000

(* ----------------------------------------------------------------------- *)
\* a finished change_i2c_address call whose address passed the range check
AddressAccepted(e) ==
  /\ e.call.op = "change_i2c_address"
  /\ (ValidAddress(e.call.arg) \/ e.call.arg \in 8..119)

(* C24: change_address with a legal address issues exactly one bus         *)
(* operation, the write of command 0xC7 with the new address, and leaves   *)
(* the handle as it was: after the call its configuration and the bus      *)
(* address it talks to are those it had before the call.                   *)
C24_ChangeAddressLeavesHandle ==
  \A i \in Finished :
    AddressAccepted(log[i]) =>
      LET b == BusOps(log[i].trace) IN
        /\ Len(b) = 1
        /\ b[1].ev = "write_data"
        /\ b[1].a = 199
        /\ b[1].b = log[i].call.arg
        /\ i = Len(log) =>
             /\ i2c_addr = log[i].call.addr
             /\ config = log[i].call.config

\* change_i2c_address(0x08) has returned Ok and the handle still talks to
\* the address it was opened at
C24_Witness ==
  \E i \in Finished :
    /\ AddressAccepted(log[i])
    /\ i = Len(log)
    /\ log[i].call.arg = 8
    /\ log[i].result = Ok
    /\ i2c_addr = QuadRelayDefault
    /\ i2c_addr # log[i].call.arg

(* ----------------------------------------------------------------------- *)
\* the configuration of the handle when call i of the log had returned
ConfigAfter(i) == IF i < Len(log) THEN log[i + 1].call.config ELSE config

\* every sleep of the trace is one that configuration c asks for, no attempt
\* lies beyond its max_retries, and a Timeout names its timeout
GovernedBy(e, c) ==
  /\ \A j \in 1..Len(e.trace) :
       LET x == e.trace[j] IN
         /\ (x.ev = "sleep" /\ x.what = "write_delay") => x.a = c.write_delay_us
         /\ (x.ev = "sleep" /\ x.what = "verification_delay")
              => x.a = c.verification.verification_delay_ms * 1000
         /\ (x.ev = "sleep" /\ x.what = "retry_delay")
              => x.a = c.verification.retry_delay_ms * 1000
         /\ x.att <= c.verification.max_retries
  /\ IF c.verification.mode = "Disabled"
       THEN \A j \in 1..Len(e.trace) : ~IsCheck(e.trace[j]) /\ e.trace[j].what # "readback"
       ELSE IsCheck(e.trace[1])
  /\ e.result.kind = "Timeout" => e.result.duration_ms = c.verification.timeout_ms
  /\ e.result.kind = "StateVerificationFailed"
       => Last(e.trace).att = c.verification.max_retries

SleepsAt(tr, j, what, us) ==
  /\ j <= Len(tr)
  /\ tr[j].ev = "sleep"
  /\ tr[j].what = what
  /\ tr[j].a = us

(* C26 (as claimed): in an attempt of verified set that writes, the engine *)
(* sleeps write_delay, then state_change_delay, then verification_delay,   *)
(* in that order, between the write and the read-back.                     *)
C26_SleepsBetweenWriteAndReadBack ==
  \A i \in Finished :
    IsVerifiedSet(log[i]) =>
      LET tr == log[i].trace
          c == log[i].call.config
      IN \A j \in 1..Len(tr) :
           (IsWrite(tr[j]) /\ tr[j].ok) =>
             /\ SleepsAt(tr, j + 1, "write_delay", c.write_delay_us)
             /\ SleepsAt(tr, j + 2, "state_change_delay", Ms(c.state_change_delay_ms))
             /\ SleepsAt(tr, j + 3, "verification_delay", Ms(c.verification.verification_delay_ms))
             /\ j + 4 <= Len(tr)
             /\ tr[j + 4].what = "readback"

(* ----------------------------------------------------------------------- *)
\* a finished set call that ran the verification loop of its handle
RanVerified(e) == IsSet(e) /\ e.call.config.verification.mode # "Disabled"

\* entry j of the trace is a read-back that succeeded and showed the state
\* the call asked for
MatchingReadBack(tr, j, op) ==
  /\ tr[j].what = "readback"
  /\ tr[j].ok
  /\ (tr[j].b # 0) = (op = "set_relay_on")

(* C27: verified set returns Ok only straight after a read-back that shows *)
(* the desired state: the last thing the call did is that read-back, with  *)
(* no bus operation and no sleep after it; and a read-back that shows the  *)
(* desired state ends the call with Ok. This holds whatever the device     *)
(* does, also when something else switches the relay between the engine's  *)
(* read and its write.                                                     *)
C27_OkOnlyAfterMatchingReadBack ==
  \A i \in Finished :
    RanVerified(log[i]) =>
      LET tr == log[i].trace IN
        /\ log[i].result.kind = "Ok" =>
             (tr # << >> /\ MatchingReadBack(tr, Len(tr), log[i].call.op))
        /\ \A j \in 1..Len(tr) :
             MatchingReadBack(tr, j, log[i].call.op)
               => (j = Len(tr) /\ log[i].result = Ok)

\* something switched the relay back during the call: the first read-back
\* showed the wrong state, the second attempt's the desired one, and the
\* call returned Ok
C27_Witness ==
  \E i \in Finished :
    /\ RanVerified(log[i])
    /\ log[i].call.actor0 > actorLeft
    /\ log[i].call.ignore0 = 0
    /\ log[i].result = Ok
    /\ Last(log[i].trace).att = 1
    /\ MatchingReadBack(log[i].trace, Len(log[i].trace), log[i].call.op)

(* ----------------------------------------------------------------------- *)
\* a finished set_relay_on / set_relay_off that returned StateVerificationFailed
FailedVerification(e) == IsSet(e) /\ e.result.kind = "StateVerificationFailed"

(* C28: every StateVerificationFailed returned by set carries the relay    *)
(* argument of the call, expected = the desired state (TRUE for            *)
(* set_relay_on, FALSE for set_relay_off) and actual = the value of the    *)
(* last read-back of the call, and actual differs from expected.           *)
C28_VerificationFailedFields ==
  \A i \in Finished :
    FailedVerification(log[i]) =>
      LET e == log[i]
          tr == e.trace
      IN /\ e.result.relay_num = e.call.relay_num
         /\ e.result.expected = (e.call.op = "set_relay_on")
         /\ tr # << >>
         /\ Last(tr).what = "readback"
         /\ Last(tr).ok
         /\ e.result.actual = (Last(tr).b # 0)
         /\ e.result.actual # e.result.expected

\* set_relay_off(Some(1)) on a relay that stays on: after a retry the error
\* reports relay 1, expected off, actual on
C28_Witness ==
  \E i \in Finished :
    /\ FailedVerification(log[i])
    /\ log[i].call.op = "set_relay_off"
    /\ log[i].call.relay_num = Some(1)
    /\ log[i].result.relay_num = Some(1)
    /\ log[i].result.expected = FALSE
    /\ log[i].result.actual = TRUE
    /\ Last(log[i].trace).att = 1
    /\ Last(log[i].trace).b # 0

(* ----------------------------------------------------------------------- *)
\* a finished set_relay_on / set_relay_off that returned Timeout
SetTimedOut(e) == IsSet(e) /\ e.result.kind = "Timeout"

\* the elapsed time (us) the last clock check of the trace measured
MeasuredAtLastCheck(tr) == Last(tr).a

\* the call ended at a clock check, straight after measuring
EndsAtCheck(tr) == tr # << >> /\ Last(tr).ev = "check"

(* C29 (as claimed): every Timeout returned by set carries the relay       *)
(* argument, the name of the operation (set_relay_on or set_relay_off)     *)
(* and the elapsed time measured at the failing check (in whole            *)
(* milliseconds), which is greater than the configured timeout.            *)
C29_TimeoutCarriesElapsed ==
  \A i \in Finished :
    SetTimedOut(log[i]) =>
      LET e == log[i] IN
        /\ e.result.relay_num = e.call.relay_num
        /\ e.result.operation = e.call.op
        /\ EndsAtCheck(e.trace)
        /\ e.result.duration_ms = MeasuredAtLastCheck(e.trace) \div 1000
        /\ MeasuredAtLastCheck(e.trace) > Ms(e.call.config.verification.timeout_ms)

(* C29 (amended): every Timeout returned by set carries the relay          *)
(* argument, the name of the operation (set_relay_on or set_relay_off)     *)
(* and the configured timeout in milliseconds; the elapsed time measured   *)
(* at the failing check is greater than the configured timeout.            *)
C29_TimeoutCarriesConfiguredTimeout ==
  \A i \in Finished :
    SetTimedOut(log[i]) =>
      LET e == log[i] IN
        /\ e.result.relay_num = e.call.relay_num
        /\ e.result.operation = e.call.op
        /\ EndsAtCheck(e.trace)
        /\ e.result.duration_ms = e.call.config.verification.timeout_ms
        /\ MeasuredAtLastCheck(e.trace) > Ms(e.call.config.verification.timeout_ms)

\* set_relay_on(Some(1)) with timeout 60 ms and retry_delay 200 ms on a
\* relay that stays off: the second check measures more than 200 ms and the
\* error carries 60
C29_Witness ==
  \E i \in Finished :
    /\ SetTimedOut(log[i])
    /\ log[i].call.op = "set_relay_on"
    /\ log[i].call.relay_num = Some(1)
    /\ log[i].result.operation = "set_relay_on"
    /\ log[i].result.duration_ms = 60
    /\ Last(log[i].trace).att = 1
    /\ MeasuredAtLastCheck(log[i].trace) > Ms(200)

(* ----------------------------------------------------------------------- *)
\* the steps of a set call in progress: the clock check, the read of the
\* current state, the write, and the sleep and read-back that follow it
SetStep == TimeoutCheck \/ ReadCurrent \/ WriteByte \/ ReadBack

\* the calling thread runs the call it entered: every sleep and every bus
\* call returns, nothing else runs on the thread
FairSpec == Spec /\ WF_vars(SetStep)

IsReadBack(e) == e.what = "readback"
ReadBacks(tr) == Len(SelectSeq(tr, IsReadBack))

\* a call that did this trace made no more than max_retries + 1 attempts
WithinAttempts(tr, max_retries) ==
  /\ Writes(tr) <= max_retries + 1
  /\ ReadBacks(tr) <= max_retries + 1
  /\ \A j \in 1..Len(tr) : tr[j].att <= max_retries

\* a verified set is in progress
InVerifiedSet ==
  /\ pc # "idle"
  /\ call.op \in SetOps
  /\ Verifies(call.config.verification.mode)

\* neither a finished verified set nor the one in progress went beyond
\* max_retries + 1 attempts
AttemptsBounded ==
  /\ \A i \in Finished :
       RanVerified(log[i]) =>
         WithinAttempts(log[i].trace, log[i].call.config.verification.max_retries)
  /\ InVerifiedSet => WithinAttempts(trace, call.config.verification.max_retries)

(* C30: every verified set call terminates after at most max_retries + 1   *)
(* attempts: it never issues more than max_retries + 1 writes nor more     *)
(* than max_retries + 1 read-backs, and a verified set in progress comes   *)
(* to its end, for every device behaviour and every timeout.               *)
C30_TerminatesWithinAttempts ==
  /\ []AttemptsBounded
  /\ InVerifiedSet ~> (pc = "idle")

\* a verified set with max_retries = 1 on a relay that never obeys, with
\* time to spare: it ended after exactly 2 writes and 2 read-backs
C30_Witness ==
  \E i \in Finished :
    /\ RanVerified(log[i])
    /\ log[i].call.config.verification.max_retries = 1
    /\ log[i].result.kind = "StateVerificationFailed"
    /\ Writes(log[i].trace) = 2
    /\ ReadBacks(log[i].trace) = 2

(* ----------------------------------------------------------------------- *)
IsRetrySleep(e) == e.ev = "sleep" /\ e.what = "retry_delay"

\* the retry sleeps the trace holds for attempt k
RetrySleepsOf(tr, k) == {j \in 1..Len(tr) : IsRetrySleep(tr[j]) /\ tr[j].att = k}

\* entry j of the trace is a read-back that failed on the bus or showed the
\* state not asked for
UnsuccessfulReadBack(tr, j, op) == IsReadBack(tr[j]) /\ ~MatchingReadBack(tr, j, op)

(* C31: in verified set the engine sleeps retry_delay exactly once between *)
(* two consecutive attempts, straight after the mismatching or failed      *)
(* read-back of the earlier one, and never after the final attempt or      *)
(* after a successful read-back.                                           *)
C31_RetrySleepOnceBetweenAttempts ==
  \A i \in Finished :
    RanVerified(log[i]) =>
      LET tr == log[i].trace
          op == log[i].call.op
          vc == log[i].call.config.verification
      IN /\ \A j \in 1..Len(tr) :
              IsRetrySleep(tr[j]) =>
                /\ tr[j].a = Ms(vc.retry_delay_ms)
                /\ tr[j].att < vc.max_retries
                /\ j > 1
                /\ UnsuccessfulReadBack(tr, j - 1, op)
                /\ j < Len(tr)
                /\ tr[j + 1].att = tr[j].att + 1
         /\ \A j \in 1..(Len(tr) - 1) :
              tr[j + 1].att # tr[j].att =>
                (IsRetrySleep(tr[j]) /\ Cardinality(RetrySleepsOf(tr, tr[j].att)) = 1)
         /\ \A j \in 1..Len(tr) :
              (UnsuccessfulReadBack(tr, j, op) /\ tr[j].att < vc.max_retries) =>
                (j < Len(tr) /\ IsRetrySleep(tr[j + 1]))

\* retry_delay 50 ms, max_retries 2, the relay never obeys: one sleep of
\* 50 ms after the first and after the second read-back, none after the third
C31_Witness ==
  \E i \in Finished :
    /\ RanVerified(log[i])
    /\ log[i].call.config.verification.max_retries = 2
    /\ log[i].call.config.verification.retry_delay_ms = 50
    /\ log[i].result.kind = "StateVerificationFailed"
    /\ Cardinality({j \in 1..Len(log[i].trace) : IsRetrySleep(log[i].trace[j])}) = 2
    /\ IsReadBack(Last(log[i].trace))

(* ----------------------------------------------------------------------- *)
\* a finished set on the relay of a single relay board (relay_num None)
\* with verification Disabled
UnitUnverifiedSet(e) ==
  /\ IsSet(e)
  /\ e.call.relay_num = None
  /\ e.call.config.verification.mode = "Disabled"

\* the relay of the single relay board was in the state asked for on entry
UnitAlreadyDesired(e) == e.call.states0[0] = ExpectedState(e.call.op)

\* entry j of the trace is the write of the On (0x01) / Off (0x00) command
UnitWrite(tr, j, op) ==
  /\ IsWrite(tr[j])
  /\ tr[j].what = "unit"
  /\ tr[j].a = (IF op = "set_relay_on" THEN 1 ELSE 0)

(* C32 (as claimed): for the relay of a single relay board in Disabled     *)
(* mode, set reads the current state first and returns success without     *)
(* writing when it already equals the desired state; otherwise it writes   *)
(* the command On (0x01) or Off (0x00).                                    *)
C32_UnitSetReadsFirst ==
  \A i \in Finished :
    (UnitUnverifiedSet(log[i]) /\ log[i].call.faults0 = 0) =>
      LET tr == log[i].trace
          op == log[i].call.op
      IN /\ tr # << >>
         /\ IsRead(tr[1])
         /\ IF UnitAlreadyDesired(log[i])
              THEN Writes(tr) = 0 /\ log[i].result = Ok
              ELSE Writes(tr) = 1 /\ \E j \in 1..Len(tr) : UnitWrite(tr, j, op)

(* C32 (amended): for the relay of a single relay board in Disabled mode,  *)
(* set reads nothing: whatever the current state, it writes the command On *)
(* (0x01) or Off (0x00) exactly once, and when that write succeeds it      *)
(* sleeps write_delay and returns success.                                 *)
C32_UnitSetAlwaysWrites ==
  \A i \in Finished :
    UnitUnverifiedSet(log[i]) =>
      LET tr == log[i].trace
          op == log[i].call.op
      IN /\ Reads(tr) = 0
         /\ Writes(tr) = 1
         /\ UnitWrite(tr, 1, op)
         /\ IF tr[1].ok
              THEN /\ Len(tr) = 2
                   /\ tr[2].ev = "sleep"
                   /\ tr[2].a = log[i].call.config.write_delay_us
                   /\ log[i].result = Ok
              ELSE Len(tr) = 1 /\ log[i].result = I2CError

\* set_relay_on(None), Disabled, on a board whose relay is already on: the
\* call still writes 0x01
C32_Witness ==
  \E i \in Finished :
    /\ UnitUnverifiedSet(log[i])
    /\ log[i].call.op = "set_relay_on"
    /\ log[i].call.states0[0]
    /\ log[i].call.faults0 = 0
    /\ Reads(log[i].trace) = 0
    /\ log[i].trace[1].a = 1
    /\ log[i].result = Ok

(* ----------------------------------------------------------------------- *)
\* a finished get_relay_state(Some(num))
IsGetOf(e) == e.call.op = "get_relay_state" /\ e.call.relay_num # None

\* a finished set_relay_on / set_relay_off (Some(num))
IsSetOf(e) == IsSet(e) /\ e.call.relay_num # None

(* C33 (as claimed): get(num) performs exactly one register read, at       *)
(* address 0x04 + num, and no write; it returns On iff the byte is         *)
(* nonzero, does not retry, and returns a transport error of that read     *)
(* unchanged; set uses that same register for its reads and the command    *)
(* byte 0x00 + num for its toggle write.                                   *)
C33_GetReadsStatusRegisterOnce ==
  \A i \in Finished :
    LET e == log[i]
        tr == e.trace
    IN /\ IsGetOf(e) =>
            /\ Len(tr) = 1
            /\ IsRead(tr[1])
            /\ tr[1].a = StatusBase + e.call.relay_num[1]
            /\ e.result = (IF tr[1].ok THEN OkValue(IF tr[1].b # 0 THEN 1 ELSE 0)
                           ELSE I2CError)
       /\ IsSetOf(e) =>
            \A j \in 1..Len(tr) :
              /\ IsRead(tr[j]) => tr[j].a = StatusBase + e.call.relay_num[1]
              /\ IsWrite(tr[j]) =>
                   (tr[j].what = "toggle" /\ tr[j].a = DualQuadToggleBase + e.call.relay_num[1])

(* ----------------------------------------------------------------------- *)
\* a verified set on a relay of the board is in progress, and nothing but
\* the handle has switched a relay since the call was entered
InVerifiedSetOfRelay ==
  /\ InVerifiedSet
  /\ call.relay_num # None
  /\ call.relay_num[1] \in 1..MaxRelays
  /\ call.actor0 = actorLeft

\* the relay of the call in progress is in the state the call asks for
RelayDesired == relay_states[call.relay_num[1]] = ExpectedState(call.op)

\* this step hands a byte to the bus
IssuesWrite == pc = "write" /\ trace' # trace

\* this step is the handle's own, not a switch from elsewhere
OwnStep == actorLeft' = actorLeft

DetectJustReturned ==
  /\ log # << >>
  /\ log[Len(log)].call.op = "auto_detect_timing"
  /\ ~detect.on
  /\ todo = << >>

IsCandidate(e) == e.ev = "config" /\ e.what = "candidate"

\* the candidates a run of auto_detect_timing put into the configuration
CandidatesOf(events) == SelectSeq(events, IsCandidate)

\* the test of the last candidate of test_configs ended in a failed step
EveryCandidateFailed ==
  /\ Len(log) > 1
  /\ Len(CandidatesOf(log[Len(log)].trace)) = Len(TestConfigs)
  /\ detect.phase # "final"
  /\ InnerFailed(detect.phase, log[Len(log) - 1].result)

(* C35: auto_detect_timing: when every candidate timing fails its on/off   *)
(* test, the configuration of the handle after the call equals the         *)
(* configuration before the call in every field, and the call returns      *)
(* Ok(false).                                                              *)
C35_FailedDetectionRestoresConfig ==
  (DetectJustReturned /\ EveryCandidateFailed) =>
    /\ config = log[Len(log)].call.config
    /\ log[Len(log)].result = OkValue(0)

\* verification Disabled, a device that ignores more writes than there are
\* candidates: every candidate fails its first read, the configuration
\* (write_delay 10 us) is as it was
C35_Witness ==
  /\ DetectJustReturned
  /\ EveryCandidateFailed
  /\ log[Len(log)].call.config.verification.mode = "Disabled"
  /\ log[Len(log)].call.ignore0 >= Len(TestConfigs)
  /\ log[Len(log)].result = OkValue(0)
  /\ config.write_delay_us = 10
  /\ config.state_change_delay_ms = 10

(* ----------------------------------------------------------------------- *)
\* entries j .. j+3 of the log are one on/off cycle on relay 1 that worked:
\* set_relay_on Ok, get On, set_relay_off Ok, get Off
GoodCycle(j) ==
  /\ log[j].call.op = "set_relay_on" /\ log[j].result.kind = "Ok"
  /\ log[j + 1].call.op = "get_relay_state" /\ log[j + 1].result = OkValue(1)
  /\ log[j + 2].call.op = "set_relay_off" /\ log[j + 2].result.kind = "Ok"
  /\ log[j + 3].call.op = "get_relay_state" /\ log[j + 3].result = OkValue(0)

\* entries j .. j+11 of the log are three cycles that worked
GoodTest(j) == \A k \in 0..(TestCycles - 1) : GoodCycle(j + 4 * k)

\* the calls one test of a candidate makes when every step works
TestLength == 4 * TestCycles

(* C36: auto_detect_timing tries the candidates (5,5), (10,10), (15,15),   *)
(* (20,20) in that order and stops at the first one whose three on/off     *)
(* cycles all succeed and read back correctly; it then returns Ok(true)    *)
(* with write_delay_us and state_change_delay_ms set to the values of that *)
(* candidate plus 2, and with relay_count, init_delay_ms and the           *)
(* verification policy unchanged.                                          *)
C36_DetectionKeepsFirstWorkingCandidate ==
  DetectJustReturned =>
    LET n == Len(log)
        before == log[n].call.config
        tried == CandidatesOf(log[n].trace)
        last == tried[Len(tried)]
    IN /\ Len(tried) \in 1..Len(TestConfigs)
       /\ \A k \in 1..Len(tried) : << tried[k].a, tried[k].b >> = TestConfigs[k]
       /\ \A j \in 1..(n - TestLength) :
            GoodTest(j) => (j = n - TestLength - 1 /\ log[n].result = OkValue(1))
       /\ log[n].result = OkValue(1) =>
            /\ n > TestLength + 1
            /\ GoodTest(n - TestLength - 1)
            /\ log[n - 1].call.op = "set_relay_off"
            /\ config = [before EXCEPT !.write_delay_us = last.a + 2,
                                       !.state_change_delay_ms = last.b + 2]
            /\ config.relay_count = before.relay_count
            /\ config.init_delay_ms = before.init_delay_ms
            /\ config.verification = before.verification

\* a device that ignores the first write: (5,5) fails, (10,10) works, and
\* the handle is left with write_delay 12 us and state_change_delay 12 ms
C36_Witness ==
  /\ DetectJustReturned
  /\ log[Len(log)].result = OkValue(1)
  /\ Len(CandidatesOf(log[Len(log)].trace)) = 2
  /\ log[Len(log)].call.ignore0 = 1
  /\ config.write_delay_us = 12
  /\ config.state_change_delay_ms = 12
  /\ config.init_delay_ms = 200

(* ----------------------------------------------------------------------- *)
\* the call ended in the read-back of its last attempt, which succeeded on
\* the bus and showed the state not asked for
EndsInFinalMismatch(e) ==
  /\ RanVerified(e)
  /\ e.trace # << >>
  /\ IsReadBack(Last(e.trace))
  /\ Last(e.trace).ok
  /\ ~MatchingReadBack(e.trace, Len(e.trace), e.call.op)
  /\ Last(e.trace).att = e.call.config.verification.max_retries

(* C37 (as claimed): the attempts value reported in                        *)
(* StateVerificationFailed is computed without 8-bit wrap-around or        *)
(* overflow for every max_retries in 0..255: the last attempt, numbered    *)
(* max_retries, reports the count max_retries + 1, which is 256 for        *)
(* max_retries = 255.                                                      *)
C37_AttemptsComputedWithoutOverflow ==
  \A i \in Finished :
    EndsInFinalMismatch(log[i]) =>
      /\ log[i].result.kind = "StateVerificationFailed"
      /\ log[i].result.attempts = Last(log[i].trace).att + 1

(* ----------------------------------------------------------------------- *)
\* the status registers of the relays 1..4 (Command::RelayOneStatus ..
\* RelayFourStatus) and their toggle commands (ToggleRelayOne .. Four)
RelayStatusRegisters == (StatusBase + 1)..(StatusBase + MaxRelays)
RelayToggleCommands == (DualQuadToggleBase + 1)..(DualQuadToggleBase + MaxRelays)

(* C38 (as claimed): for every relay number that set or get passes to the  *)
(* bus, the status register address 0x04 + num and the toggle command byte *)
(* 0x00 + num are computed without 8-bit overflow and lie in the per-relay *)
(* ranges 0x05..0x08 and 0x01..0x04: no read goes to the firmware-version  *)
(* register 0x04 and no write is a whole-board command 0x0A..0x0C.         *)
C38_RelayBytesInRange ==
  \A i \in Finished :
    (IsGetOf(log[i]) \/ IsSetOf(log[i])) =>
      /\ log[i].result.kind # "Panic"
      /\ \A j \in 1..Len(log[i].trace) :
           LET t == log[i].trace[j] IN
             /\ IsRead(t) => (t.a \in RelayStatusRegisters /\ t.a # SingleFirmwareVersion)
             /\ IsWrite(t) =>
                  (t.a \in RelayToggleCommands /\ t.a \notin {TurnAllOff, TurnAllOn, ToggleAll})

(* ----------------------------------------------------------------------- *)
\* a write of one byte by write_byte (not the two bytes of change_i2c_address)
\* that the bus accepted
SingleByteWritten(t) == IsWrite(t) /\ t.ok

(* C39 (as claimed): after every successful single-byte write, write_byte  *)
(* sleeps exactly write_delay_us microseconds, for every 32-bit            *)
(* write_delay_us: the conversion to nanoseconds (write_delay_us * 1000)   *)
(* never overflows or wraps, and a zero delay is legal.                    *)
C39_SleepsWriteDelayExactly ==
  \A i \in Finished :
    \A j \in 1..Len(log[i].trace) :
      SingleByteWritten(log[i].trace[j]) =>
        /\ j < Len(log[i].trace)
        /\ log[i].trace[j + 1].ev = "sleep"
        /\ log[i].trace[j + 1].what = "write_delay"
        /\ log[i].trace[j + 1].a = log[i].call.config.write_delay_us

====
